---- MODULE Spec2Model ----
(***************************************************************************)
(* Model of the python shapeDNA core of fs_shapeDNA.py: the finite-element *)
(* assembly of the stiffness matrix A and the mass matrix B for triangle   *)
(* meshes (computeABtria) and tetrahedral meshes (computeABtetra), and the *)
(* shift-invert solver wrappers laplaceTria / laplaceTetra.                *)
(*                                                                         *)
(* Numbers.  The code computes in IEEE doubles.  The model computes in     *)
(* exact rationals <<n, d>> (d > 0, lowest terms) extended by the three    *)
(* IEEE specials, written with a zero denominator: <<1, 0>> is +inf,       *)
(* <<-1, 0>> is -inf and <<0, 0>> is nan.  numpy does not raise on a       *)
(* division by zero: it yields inf or nan, and so does Div below.          *)
(* Vertex coordinates are integers, so every quantity except the square    *)
(* root of computeABtria is exact; np.sqrt is a correctly rounded root and *)
(* is modelled as the root rounded down to a multiple of 1/SqrtDenom.      *)
(***************************************************************************)
EXTENDS Integers, Sequences, FiniteSets, TLC

(***************************************************************************)
(* Bounds of the model.                                                    *)
(***************************************************************************)
\* most cells (triangles or tetrahedra) of a mesh
MaxCells == 2
\* a mesh of cells with s corners has between s and s + ExtraVerts vertices
ExtraVerts == 1
\* the rounded square root has the denominator SqrtDenom
SqrtDenom == 1
\* largest number k of eigenpairs requested from the solver
MaxK == 5
\* most cells of a mesh the solver is called with
MaxSolveCells == 1
\* the largest dimension and frame count of an MGH volume
MaxDim == 2
\* the largest type field of an LTA file
MaxType == 2
\* the largest number written in an LTA file
MaxNumber == 3

\* levelsetsTria: the largest number of triangles and the largest value of p
MaxTrias == 2

MaxP == 2

(***************************************************************************)
(* Program constants.                                                      *)
(***************************************************************************)
\* 0.0001 * np.mean(vol): the factor is 1 / VolMeanDen
VolMeanDen == 10000
\* sys.float_info.epsilon = 2^(-EpsExp)
EpsExp == 52
\* sigma = -0.01 is -1 / SigmaDen
SigmaDen == 100

(***************************************************************************)
(* Extended rational arithmetic.                                           *)
(***************************************************************************)
Abs(x) == IF x < 0 THEN -x ELSE x

Sign(x) == IF x > 0 THEN 1 ELSE IF x < 0 THEN -1 ELSE 0

RECURSIVE GCD(_, _)
GCD(a, b) == IF b = 0 THEN a ELSE GCD(b, a % b)

Rat(n, d) ==
    IF d = 0 THEN <<Sign(n), 0>>
    ELSE LET g == GCD(Abs(n), Abs(d))
         IN  <<(Sign(d) * n) \div g, Abs(d) \div g>>

FromInt(n) == <<n, 1>>

Zero == <<0, 1>>

NaN == <<0, 0>>

IsFinite(x) == x[2] # 0

Neg(x) == <<-x[1], x[2]>>

Add(x, y) ==
    IF x[2] # 0 /\ y[2] # 0
    THEN LET g == GCD(x[2], y[2])
         IN  Rat(x[1] * (y[2] \div g) + y[1] * (x[2] \div g), (x[2] \div g) * y[2])
    ELSE IF x[2] = 0 /\ y[2] = 0 THEN (IF x[1] = y[1] THEN x ELSE NaN)
    ELSE IF x[2] = 0 THEN x ELSE y

Sub(x, y) == Add(x, Neg(y))

Mul(x, y) ==
    IF x[2] # 0 /\ y[2] # 0
    THEN LET a == Rat(x[1], y[2])
             b == Rat(y[1], x[2])
         IN  <<a[1] * b[1], a[2] * b[2]>>
    ELSE <<Sign(x[1]) * Sign(y[1]), 0>>

\* x / y as numpy divides: 0/0 = nan, x/0 = +-inf, x/inf = 0, inf/inf = nan
Div(x, y) ==
    IF y[2] = 0
    THEN (IF x[2] = 0 \/ y[1] = 0 THEN NaN ELSE Zero)
    ELSE IF x[2] = 0 THEN <<x[1] * (IF y[1] < 0 THEN -1 ELSE 1), 0>>
    ELSE IF y[1] = 0 THEN <<Sign(x[1]), 0>>
    ELSE Mul(x, Rat(y[2], y[1]))

IsPositive(x) == x[1] > 0 /\ x[2] # 0

RECURSIVE ShiftRight(_, _)
ShiftRight(m, e) == IF e = 0 \/ m = 0 THEN m ELSE ShiftRight(m \div 2, e - 1)

\* x < sys.float_info.epsilon, for a finite x: n/d < 2^-52 iff n <= (d-1) div 2^52
LessEps(x) == x[2] # 0 /\ x[1] <= ShiftRight(x[2] - 1, EpsExp)

\* np.sqrt of a non-negative integer, rounded down to a multiple of 1/SqrtDenom
Sqrt(s) ==
    LET m == s * SqrtDenom * SqrtDenom
        r == CHOOSE q \in 0..m : q * q <= m /\ (q + 1) * (q + 1) > m
    IN  Rat(r, SqrtDenom)

RECURSIVE SumSeq(_)
SumSeq(xs) == IF xs = << >> THEN Zero ELSE Add(xs[1], SumSeq(Tail(xs)))

\* np.mean
Mean(xs) == Div(SumSeq(xs), FromInt(Len(xs)))

(***************************************************************************)
(* Vectors of three integer coordinates.                                   *)
(***************************************************************************)
VSub(a, b) == <<a[1] - b[1], a[2] - b[2], a[3] - b[3]>>

\* np.sum(a*b, axis=1)
Dot(a, b) == a[1] * b[1] + a[2] * b[2] + a[3] * b[3]

\* np.cross
Cross(a, b) ==
    <<a[2] * b[3] - a[3] * b[2], a[3] * b[1] - a[1] * b[3], a[1] * b[2] - a[2] * b[1]>>

(***************************************************************************)
(* Sparse matrices.  sparse.csc_matrix((data, (I, J))) is given no shape:  *)
(* it takes the shape (max(I) + 1, max(J) + 1) and sums the data of        *)
(* duplicate (row, column) pairs.  A matrix is its shape and its entries,  *)
(* the entries no data was given for being 0.                              *)
(***************************************************************************)
RECURSIVE Flatten(_)
Flatten(rows) == IF rows = << >> THEN << >> ELSE rows[1] \o Flatten(Tail(rows))

MaxOf(xs) == CHOOSE m \in {xs[k] : k \in DOMAIN xs} : \A k \in DOMAIN xs : xs[k] <= m

\* the sum of the data at the positions ks
RECURSIVE SumAt(_, _)
SumAt(data, ks) ==
    IF ks = {} THEN Zero
    ELSE LET k == CHOOSE x \in ks : TRUE
         IN  Add(data[k], SumAt(data, ks \ {k}))

\* a scatter that overwrites: the last value of a duplicate pair wins
SumDuplicatesOverwrite(data, I, J, i, j) ==
    LET ks == {k \in DOMAIN data : I[k] = i /\ J[k] = j}
    IN  IF ks = {} THEN Zero ELSE data[CHOOSE k \in ks : \A x \in ks : x <= k]

\* duplicate (row, column) pairs are summed
SumDuplicates(data, I, J, i, j) ==
    SumAt(data, {k \in DOMAIN data : I[k] = i /\ J[k] = j})

\* the matrix of the given shape
Coo(data, I, J, nr, nc) ==
    [shape |-> <<nr, nc>>,
     M     |-> [ij \in (0..(nr - 1)) \X (0..(nc - 1)) |->
                    SumDuplicates(data, I, J, ij[1], ij[2])]]

csc_matrix(data, I, J) == Coo(data, I, J, MaxOf(I) + 1, MaxOf(J) + 1)

(***************************************************************************)
(* computeABtria.  v is the sequence of vertices, t the sequence of        *)
(* triangles, each a triple of 0-based indices into v.                     *)
(***************************************************************************)
\* v[t1, :] etc.: the corner of cell c in column col
Corner(v, c, col) == v[c[col] + 1]

\* cr = np.cross(v3mv2, v1mv3); vol = 2 * np.sqrt(np.sum(cr*cr, axis=1))
TriaVol(v, c) ==
    LET v1 == Corner(v, c, 1)
        v2 == Corner(v, c, 2)
        v3 == Corner(v, c, 3)
        cr == Cross(VSub(v3, v2), VSub(v1, v3))
    IN  Mul(FromInt(2), Sqrt(Dot(cr, cr)))

\* vol_mean = 0.0001 * np.mean(vol)
VolMean(vol) == Mul(Rat(1, VolMeanDen), Mean(vol))

\* vol[vol < sys.float_info.epsilon] = vol_mean
Replace(vol, small, vol_mean) ==
    [c \in DOMAIN vol |-> IF small[c] THEN vol_mean ELSE vol[c]]

TriaGuard(vol) == Replace(vol, [c \in DOMAIN vol |-> LessEps(vol[c])], VolMean(vol))

\* the diagonal entry of a row with the off-diagonal entries x and y
TriaDiag(x, y) == Sub(Neg(x), y)

\* the off-diagonal entries <<A12, A23, A31>> of a cell
TriaOffDiag(v, c, vol) ==
    LET v1    == Corner(v, c, 1)
        v2    == Corner(v, c, 2)
        v3    == Corner(v, c, 3)
        v2mv1 == VSub(v2, v1)
        v3mv2 == VSub(v3, v2)
        v1mv3 == VSub(v1, v3)
    IN  << Div(FromInt(Dot(v3mv2, v1mv3)), vol),
           Div(FromInt(Dot(v1mv3, v2mv1)), vol),
           Div(FromInt(Dot(v2mv1, v3mv2)), vol) >>

\* the row (A12, A12, A23, A23, A31, A31, A11, A22, A33) of the off-diagonal
\* entries o = <<A12, A23, A31>>
TriaRow(o) ==
    <<o[1], o[1], o[2], o[2], o[3], o[3],
      TriaDiag(o[1], o[3]), TriaDiag(o[1], o[2]), TriaDiag(o[3], o[2])>>

\* one row of localA
TriaLocalA(v, c, vol) == TriaRow(TriaOffDiag(v, c, vol))

\* one row of I = (t1, t2, t2, t3, t3, t1, t1, t2, t3)
TriaI(c) == <<c[1], c[2], c[2], c[3], c[3], c[1], c[1], c[2], c[3]>>

\* an index slip in J: the sixth column is t1 instead of t3
TriaJSlip(c) == <<c[2], c[1], c[3], c[2], c[1], c[1], c[1], c[2], c[3]>>

\* one row of J = (t2, t1, t3, t2, t1, t3, t1, t2, t3)
TriaJ(c) == <<c[2], c[1], c[3], c[2], c[1], c[3], c[1], c[2], c[3]>>

\* a consistent local mass matrix with diagonal and off-diagonal weights exchanged
TriaLocalBWeightsExchanged(vol) ==
    LET Bii == Div(vol, FromInt(48))
        Bij == Div(vol, FromInt(24))
    IN  <<Bij, Bij, Bij, Bij, Bij, Bij, Bii, Bii, Bii>>

\* one row of localB, not lumped: Bij = vol / 48 six times, Bii = vol / 24 thrice
TriaLocalB(vol) ==
    LET Bii == Div(vol, FromInt(24))
        Bij == Div(vol, FromInt(48))
    IN  <<Bij, Bij, Bij, Bij, Bij, Bij, Bii, Bii, Bii>>

\* a lumped row with the consistent diagonal vol / 24
TriaLocalBLumpConsistentDiag(vol) ==
    LET Bii == Div(vol, FromInt(24))
    IN  <<Bii, Bii, Bii>>

\* one row of localB, lumped: Bii = vol / 12 on the three corners
TriaLocalBLump(vol) ==
    LET Bii == Div(vol, FromInt(12))
    IN  <<Bii, Bii, Bii>>

\* one row of the lumped I = (t1, t2, t3)
TriaILump(c) == <<c[1], c[2], c[3]>>

\* the matrices A and B from the guarded vol
TriaAssemble(v, t, vol, lump) ==
    LET cells == DOMAIN t
        I     == Flatten([c \in cells |-> TriaI(t[c])])
        J     == Flatten([c \in cells |-> TriaJ(t[c])])
        IL    == Flatten([c \in cells |-> TriaILump(t[c])])
    IN  [A |-> csc_matrix(Flatten([c \in cells |-> TriaLocalA(v, t[c], vol[c])]), I, J),
         B |-> IF ~lump
               THEN csc_matrix(Flatten([c \in cells |-> TriaLocalB(vol[c])]), I, J)
               ELSE csc_matrix(Flatten([c \in cells |-> TriaLocalBLump(vol[c])]), IL, IL)]

computeABtria(v, t, lump) ==
    TriaAssemble(v, t, TriaGuard([c \in DOMAIN t |-> TriaVol(v, t[c])]), lump)

(***************************************************************************)
(* computeABtetra.  t is the sequence of tetrahedra, each a quadruple of   *)
(* 0-based indices into v.                                                 *)
(***************************************************************************)
\* the triple product without np.abs: its sign follows the winding
TetraVolSigned(v, c) ==
    LET v1 == Corner(v, c, 1)
        v2 == Corner(v, c, 2)
        v3 == Corner(v, c, 3)
        v4 == Corner(v, c, 4)
        cr == Cross(VSub(v2, v1), VSub(v1, v3))
    IN  FromInt(Dot(VSub(v4, v1), cr))

\* cr = np.cross(e1, e3); vol = np.abs(np.sum(e4*cr, axis=1))
TetraVol(v, c) ==
    LET v1 == Corner(v, c, 1)
        v2 == Corner(v, c, 2)
        v3 == Corner(v, c, 3)
        v4 == Corner(v, c, 4)
        cr == Cross(VSub(v2, v1), VSub(v1, v3))
    IN  FromInt(Abs(Dot(VSub(v4, v1), cr)))

\* vol[vol == 0] = vol_mean
TetraGuard(vol) == Replace(vol, [c \in DOMAIN vol |-> vol[c] = Zero], VolMean(vol))

\* the diagonal entry of a row with the off-diagonal entries x, y and z
TetraDiag(x, y, z) == Sub(Sub(Neg(x), y), z)

\* the six off-diagonal entries <<A12, A13, A14, A23, A24, A34>> of a cell
TetraOffDiag(v, c, vol) ==
    LET v1  == Corner(v, c, 1)
        v2  == Corner(v, c, 2)
        v3  == Corner(v, c, 3)
        v4  == Corner(v, c, 4)
        e1  == VSub(v2, v1)
        e2  == VSub(v3, v2)
        e3  == VSub(v1, v3)
        e4  == VSub(v4, v1)
        e5  == VSub(v4, v2)
        e6  == VSub(v4, v3)
        e11 == Dot(e1, e1)
        e22 == Dot(e2, e2)
        e33 == Dot(e3, e3)
        e44 == Dot(e4, e4)
        e55 == Dot(e5, e5)
        e66 == Dot(e6, e6)
        e12 == Dot(e1, e2)
        e13 == Dot(e1, e3)
        e14 == Dot(e1, e4)
        e15 == Dot(e1, e5)
        e23 == Dot(e2, e3)
        e25 == Dot(e2, e5)
        e26 == Dot(e2, e6)
        e34 == Dot(e3, e4)
        e36 == Dot(e3, e6)
    IN  << Div(FromInt((- e36 * e26) + e23 * e66), vol),
           Div(FromInt((- e15 * e25) + e12 * e55), vol),
           Div(FromInt(e23 * e26 - e36 * e22), vol),
           Div(FromInt((- e14 * e34) + e13 * e44), vol),
           Div(FromInt(e13 * e34 - e14 * e33), vol),
           Div(FromInt((- e14 * e13) + e11 * e34), vol) >>

\* the row (A12, A12, A23, A23, A13, A13, A14, A14, A24, A24, A34, A34,
\* A11, A22, A33, A44) of the off-diagonal entries o = <<A12, A13, A14, A23, A24, A34>>
TetraRow(o) ==
    <<o[1], o[1], o[4], o[4], o[2], o[2], o[3], o[3], o[5], o[5], o[6], o[6],
      TetraDiag(o[1], o[2], o[3]), TetraDiag(o[1], o[4], o[5]),
      TetraDiag(o[2], o[4], o[6]), TetraDiag(o[3], o[5], o[6])>>

\* the division forgotten
DivideByForgotten(row, d) == row

\* localA.flatten() / 6.0
DivideBy(row, d) == [k \in DOMAIN row |-> Div(row[k], FromInt(d))]

\* one row of localA / 6.0
TetraLocalA(v, c, vol) == DivideBy(TetraRow(TetraOffDiag(v, c, vol)), 6)

\* one row of I = (t1, t2, t2, t3, t3, t1, t1, t4, t2, t4, t3, t4, t1, t2, t3, t4)
TetraI(c) ==
    <<c[1], c[2], c[2], c[3], c[3], c[1], c[1], c[4], c[2], c[4], c[3], c[4],
      c[1], c[2], c[3], c[4]>>

\* one row of J = (t2, t1, t3, t2, t1, t3, t4, t1, t4, t2, t4, t3, t1, t2, t3, t4)
TetraJ(c) ==
    <<c[2], c[1], c[3], c[2], c[1], c[3], c[4], c[1], c[4], c[2], c[4], c[3],
      c[1], c[2], c[3], c[4]>>

\* one row of localB, not lumped: Bij = vol / 120 twelve times, Bii = vol / 60
TetraLocalB(vol) ==
    LET Bii == Div(vol, FromInt(60))
        Bij == Div(vol, FromInt(120))
    IN  <<Bij, Bij, Bij, Bij, Bij, Bij, Bij, Bij, Bij, Bij, Bij, Bij, Bii, Bii, Bii, Bii>>

\* a lumped row with the consistent diagonal vol / 60
TetraLocalBLumpConsistentDiag(vol) ==
    LET Bii == Div(vol, FromInt(60))
    IN  <<Bii, Bii, Bii, Bii>>

\* one row of localB, lumped: Bii = vol / 24 on the four corners
TetraLocalBLump(vol) ==
    LET Bii == Div(vol, FromInt(24))
    IN  <<Bii, Bii, Bii, Bii>>

\* one row of the lumped I = (t1, t2, t3, t4)
TetraILump(c) == <<c[1], c[2], c[3], c[4]>>

\* the matrices A and B from the guarded vol
TetraAssemble(v, t, vol, lump) ==
    LET cells == DOMAIN t
        I     == Flatten([c \in cells |-> TetraI(t[c])])
        J     == Flatten([c \in cells |-> TetraJ(t[c])])
        IL    == Flatten([c \in cells |-> TetraILump(t[c])])
    IN  [A |-> csc_matrix(Flatten([c \in cells |-> TetraLocalA(v, t[c], vol[c])]), I, J),
         B |-> IF ~lump
               THEN csc_matrix(Flatten([c \in cells |-> TetraLocalB(vol[c])]), I, J)
               ELSE csc_matrix(Flatten([c \in cells |-> TetraLocalBLump(vol[c])]), IL, IL)]

computeABtetra(v, t, lump) ==
    TetraAssemble(v, t, TetraGuard([c \in DOMAIN t |-> TetraVol(v, t[c])]), lump)

(***************************************************************************)
(* The meshes the entry points are called with.                            *)
(*                                                                         *)
(* The vertex array is the first n points of a point list.  The first list *)
(* starts with the unit tetrahedron; the second with three collinear and   *)
(* four coplanar points, so that zero-area triangles and zero-volume       *)
(* tetrahedra occur alone and next to proper cells; the third has obtuse   *)
(* triangles and negative coordinates.  A cell is a window of consecutive  *)
(* vertex indices, increasing or with its first two corners swapped (both  *)
(* orientations), so that neighbouring cells share an edge or a face; the  *)
(* cell array is any sequence of at most MaxCells such cells.  Other       *)
(* corner orders of a cell are reached by the permutations the properties  *)
(* below quantify over.                                                    *)
(***************************************************************************)
Geometries ==
    { << <<0, 0, 0>>, <<1, 0, 0>>, <<0, 1, 0>>, <<0, 0, 1>>, <<1, 1, 1>>, <<1, 1, 0>>, <<2, 0, 1>> >>,
      << <<0, 0, 0>>, <<1, 0, 0>>, <<2, 0, 0>>, <<0, 1, 0>>, <<0, 0, 2>>, <<1, 1, 0>>, <<1, 2, 1>> >>,
      << <<0, 0, 0>>, <<3, 0, 0>>, <<1, 1, 0>>, <<2, -1, 1>>, <<-1, 0, 2>>, <<0, 2, 1>>, <<1, 1, 1>> >> }

\* corners of a cell: 3 for a triangle, 4 for a tetrahedron
CellSize(kind) == IF kind = "tria" THEN 3 ELSE 4

VertexArrays(kind) ==
    { SubSeq(g, 1, n) : g \in Geometries,
                        n \in CellSize(kind)..(CellSize(kind) + ExtraVerts) }

SwapFirstTwo(c) == [a \in DOMAIN c |-> IF a = 1 THEN c[2] ELSE IF a = 2 THEN c[1] ELSE c[a]]

\* the cells over the vertex indices 0..n-1
CellsOf(kind, n) ==
    LET win == { [a \in 1..CellSize(kind) |-> first + a - 1] :
                    first \in 0..(n - CellSize(kind)) }
    IN  win \cup { SwapFirstTwo(c) : c \in win }

CellLists(kind, n) == UNION { [1..m -> CellsOf(kind, n)] : m \in 0..MaxCells }

(***************************************************************************)
(* State.                                                                  *)
(***************************************************************************)
VARIABLES
    kind,       \* "tria" or "tetra": the kind of the mesh (v, t)
    v,          \* the caller's vertex array
    t,          \* the caller's cell array
    pc,         \* position: "input", then "returned" or "raised" (computeAB*);
                \* "input", "lap_assemble", "lap_factorize", "lap_eigsh", then
                \* "lap_returned" or "lap_raised" (laplace*)
    lump,       \* the lump argument of the call
    A,          \* the stiffness matrix, None before it is assembled
    B,          \* the mass matrix, None before it is assembled
    err,        \* the exception raised, "" if none
    k,          \* the number of eigenpairs asked of laplace*, 0 before the call
    useCholmod, \* laplace*: whether sksparse.cholmod could be imported
    log,        \* laplace*: what was printed and which library calls were made
    OPinv,      \* laplace*: the factorization handed on as OPinv, "none" before
    eigenvalues,\* laplace*: the number of eigenvalues returned, -1 before
    factorCalls,\* laplace*: the calls of cholesky / splu made, with their argument
    eigshCalls, \* laplace*: the calls of eigsh made, with their arguments
    run,        \* run_shapeDNAtria / run_shapeDNAtetra: the options, the position,
                \* the record d, what was exported, the calls made, the exit status
    io          \* fsqcUtils: the file read by importMGH / readLTA, the position
                \* in it and what the reader has built

vars == <<kind, v, t, pc, lump, A, B, err, k, useCholmod, log, OPinv, eigenvalues,
          factorCalls, eigshCalls, run, io>>

meshVars == <<kind, v, t>>

solverVars == <<k, useCholmod, log, OPinv, eigenvalues, factorCalls, eigshCalls, run, io>>

None == [shape |-> <<0, 0>>, M |-> << >>]

\* the result of the entry point of the mesh's kind
computeAB(kd, vv, tt, l) ==
    IF kd = "tria" THEN computeABtria(vv, tt, l) ELSE computeABtetra(vv, tt, l)

\* vol before the guard, one per cell
RawVol(kd, vv, tt) ==
    [c \in DOMAIN tt |-> IF kd = "tria" THEN TriaVol(vv, tt[c]) ELSE TetraVol(vv, tt[c])]

\* vol after the guard: the divisor of each cell
GuardedVol(kd, vv, tt) ==
    IF kd = "tria" THEN TriaGuard(RawVol(kd, vv, tt)) ELSE TetraGuard(RawVol(kd, vv, tt))

(***************************************************************************)
(* The arrays of a call.  "v_arg" and "t_arg" are the caller's arrays;     *)
(* np.array makes the new arrays "v" and "t" of them, the arithmetic makes *)
(* the new array "vol", and the guard stores into an array in place.       *)
(***************************************************************************)
\* dst = np.array(src): a new array with the contents of src
NpArray(heap, src, dst) ==
    [o \in DOMAIN heap \cup {dst} |-> IF o = dst THEN heap[src] ELSE heap[o]]

\* dst = value: a new array
NewArray(heap, dst, value) ==
    [o \in DOMAIN heap \cup {dst} |-> IF o = dst THEN value ELSE heap[o]]

\* a guard that stores into the caller's cell array
GuardTargetCallersArray == "t_arg"

\* vol[vol < eps] = vol_mean: the array stored into
GuardTarget == "vol"

\* the arrays when computeABtria / computeABtetra ends
HeapAfter(kd, vv, tt) ==
    LET h0 == [o \in {"v_arg", "t_arg"} |-> IF o = "v_arg" THEN vv ELSE tt]
        h1 == NpArray(NpArray(h0, "v_arg", "v"), "t_arg", "t")
    IN  IF tt = << >> THEN h1
        ELSE [NewArray(h1, "vol", RawVol(kd, h1["v"], h1["t"]))
                EXCEPT ![GuardTarget] = GuardedVol(kd, h1["v"], h1["t"])]

\* the caller's arrays after the call
InputsAfter(kd, vv, tt) ==
    /\ kind' = kind
    /\ \E h \in {HeapAfter(kd, vv, tt)} : v' = h["v_arg"] /\ t' = h["t_arg"]

\* no run_shapeDNA* is under way
NotRunning ==
    [step |-> "none", python |-> FALSE, num |-> 0, d |-> << >>, exported |-> << >>,
     trace |-> << >>, status |-> -1]

\* no reader of fsqcUtils is under way
NoFile == [fn |-> "none"]

Init ==
    /\ kind \in {"tria", "tetra"}
    /\ v \in VertexArrays(kind)
    /\ t \in CellLists(kind, Len(v))
    /\ pc = "input"
    /\ lump = FALSE
    /\ A = None
    /\ B = None
    /\ err = ""
    /\ k = 0
    /\ useCholmod = FALSE
    /\ log = << >>
    /\ OPinv = "none"
    /\ eigenvalues = -1
    /\ factorCalls = << >>
    /\ eigshCalls = << >>
    /\ run = NotRunning
    /\ io = NoFile

\* np.array(t)[:, 0] of an empty list raises IndexError
CallComputeAB(kd, res, l) ==
    /\ pc = "input"
    /\ kind = kd
    /\ lump' = l
    /\ IF t = << >>
       THEN /\ pc' = "raised"
            /\ err' = "IndexError"
            /\ UNCHANGED <<A, B>>
       ELSE /\ pc' = "returned"
            /\ A' = res.A
            /\ B' = res.B
            /\ UNCHANGED err
    /\ InputsAfter(kd, v, t)
    /\ UNCHANGED solverVars

CallComputeABtria == \E l \in BOOLEAN : CallComputeAB("tria", computeABtria(v, t, l), l)

CallComputeABtetra == \E l \in BOOLEAN : CallComputeAB("tetra", computeABtetra(v, t, l), l)

Next == CallComputeABtria \/ CallComputeABtetra

Spec == Init /\ [][Next]_vars

(***************************************************************************)
(* Notions the properties are stated with.                                 *)
(***************************************************************************)
\* the row (and column) indices of a square matrix
Idx(m) == 0..(m.shape[1] - 1)

Row(m, i) == [j \in 1..m.shape[2] |-> m.M[<<i, j - 1>>]]

RowSum(m, i) == SumSeq(Row(m, i))

AllFinite(m) == \A ij \in DOMAIN m.M : IsFinite(m.M[ij])

\* a cell of zero area (volume)
HasDegenerateCell == \E c \in DOMAIN t : RawVol(kind, v, t)[c] = Zero

AllDegenerate == \A c \in DOMAIN t : RawVol(kind, v, t)[c] = Zero

\* the vertex array and the single cell of the unit tetrahedron
UnitTetra == << <<0, 0, 0>>, <<1, 0, 0>>, <<0, 1, 0>>, <<0, 0, 1>> >>

IsUnitTetra == kind = "tetra" /\ v = UnitTetra /\ t = << <<0, 1, 2, 3>> >>

(***************************************************************************)
(* laplaceTria and laplaceTetra.  The two differ only in the assembly they *)
(* call.  The call is followed through its steps: the import of            *)
(* sksparse.cholmod and the message naming the solver, the assembly, the   *)
(* factorization of A - sigma*M and the call of eigsh.  Nothing in the     *)
(* function catches an exception, so what a library raises leaves it.      *)
(***************************************************************************)
\* sigma = -0.01
sigma == Rat(-1, SigmaDen)

\* A - sigma*M.  An entry x - y is kept as the pair <<x, y>> of its terms:
\* the difference of a large and a small term needs more digits than fit.
Shifted(a, m) ==
    [shape |-> a.shape,
     M     |-> [ij \in DOMAIN a.M |-> <<a.M[ij], Mul(sigma, m.M[ij])>>]]

\* x - y is finite
DifferenceIsFinite(d) == IsFinite(d[1]) /\ IsFinite(d[2])

\* x - y = 0, for a finite difference of terms in lowest terms
DifferenceIsZero(d) == d[1] = d[2]

\* a factorizer that ignores whether sksparse.cholmod was imported
FactorizerAlwaysLU(chol) == "splu"

\* if useCholmod: cholesky, else: splu
Factorizer(chol) == IF chol THEN "cholesky" ELSE "splu"

\* a row of zeros: the matrix is singular
HasZeroRow(m) == \E i \in Idx(m) : \A j \in Idx(m) : DifferenceIsZero(m.M[<<i, j>>])

\* what cholesky (useCholmod) or splu raises on a matrix it cannot factorize
FactorizationFailure(chol) == IF chol THEN "CholmodError" ELSE "RuntimeError"

\* The outcomes of cholesky(S) / splu(S): "" for a factorization, else the
\* exception.  A finite S = A + 0.01 B without a zero row is positive definite
\* and is factorized; one with a zero row is singular and is not; what the
\* libraries do with entries that are not finite is not determined here.
FactorizeOutcomes(S, chol) ==
    IF \E ij \in DOMAIN S.M : ~DifferenceIsFinite(S.M[ij])
    THEN {"", FactorizationFailure(chol)}
    ELSE IF HasZeroRow(S) THEN {FactorizationFailure(chol)}
    ELSE {""}

\* The outcomes of eigsh(A, k, M, sigma, OPinv) for an n x n matrix: with
\* k >= n scipy raises (a TypeError for a sparse A, a ValueError in older
\* releases); otherwise it returns k eigenvalues.
EigshOutcomes(n, kk) == IF kk >= n \/ kk <= 0 THEN {"TypeError", "ValueError"} ELSE {""}

\* the messages naming the solver
SolverMessages(chol) ==
    IF chol
    THEN << "Solver: cholesky decomp - performance optimal ..." >>
    ELSE << "Package scikit-sparse not found (Cholesky decomp)",
            "Solver: spsolve (LU decomp) - performance not optimal ..." >>

\* the call with k = kk and lump = l, the import of sksparse.cholmod and
\* the message
LaplaceCallWith(kk, l) ==
    /\ \E chol \in BOOLEAN :
          /\ k' = kk
          /\ lump' = l
          /\ useCholmod' = chol
          /\ log' = SolverMessages(chol)
    /\ pc' = "lap_assemble"
    /\ UNCHANGED <<meshVars, A, B, err, OPinv, eigenvalues, factorCalls, eigshCalls, io>>

LaplaceCall ==
    /\ pc = "input"
    /\ \E kk \in 1..MaxK, l \in BOOLEAN : LaplaceCallWith(kk, l)
    /\ UNCHANGED run

\* A, M = computeABtria(v, t, lump=lump) or computeABtetra(v, t, lump=lump)
LaplaceAssemble ==
    /\ pc = "lap_assemble"
    /\ IF t = << >>
       THEN /\ pc' = "lap_raised"
            /\ err' = "IndexError"
            /\ UNCHANGED <<A, B>>
       ELSE /\ pc' = "lap_factorize"
            /\ A' = computeAB(kind, v, t, lump).A
            /\ B' = computeAB(kind, v, t, lump).B
            /\ UNCHANGED err
    /\ InputsAfter(kind, v, t)
    /\ UNCHANGED <<lump, solverVars>>

\* chol = cholesky(A - sigma*M) or lu = splu(A - sigma*M), and OPinv
LaplaceFactorize ==
    /\ pc = "lap_factorize"
    /\ \E e \in FactorizeOutcomes(Shifted(A, B), useCholmod) :
          IF e = ""
          THEN /\ pc' = "lap_eigsh"
               /\ OPinv' = Factorizer(useCholmod)
               /\ UNCHANGED err
          ELSE /\ pc' = "lap_raised"
               /\ err' = e
               /\ UNCHANGED OPinv
    /\ log' = Append(log, IF Factorizer(useCholmod) = "cholesky"
                          THEN "call cholesky" ELSE "call splu")
    /\ factorCalls' = Append(factorCalls,
                             [fn |-> Factorizer(useCholmod), arg |-> Shifted(A, B)])
    /\ UNCHANGED <<meshVars, lump, A, B, k, useCholmod, eigenvalues, eigshCalls, run, io>>

\* eigenvalues, eigenvectors = eigsh(A, k, M, sigma=sigma, OPinv=OPinv)
LaplaceEigsh ==
    /\ pc = "lap_eigsh"
    /\ \E e \in EigshOutcomes(A.shape[1], k) :
          IF e = ""
          THEN /\ pc' = "lap_returned"
               /\ eigenvalues' = k
               /\ UNCHANGED err
          ELSE /\ pc' = "lap_raised"
               /\ err' = e
               /\ UNCHANGED eigenvalues
    /\ log' = Append(log, "call eigsh")
    /\ eigshCalls' = Append(eigshCalls, [k |-> k, sigma |-> sigma, OPinv |-> OPinv])
    /\ UNCHANGED <<meshVars, lump, A, B, k, useCholmod, OPinv, factorCalls, run, io>>

\* laplace* is called with meshes of at most MaxSolveCells cells
InitLaplace == Init /\ Len(t) <= MaxSolveCells

NextLaplace == LaplaceCall \/ LaplaceAssemble \/ LaplaceFactorize \/ LaplaceEigsh

SpecLaplace == InitLaplace /\ [][NextLaplace]_vars

\* the four entry points together: computeABtria, computeABtetra on every
\* mesh, laplaceTria, laplaceTetra on the meshes of at most MaxSolveCells cells
NextEntryPoints == Next \/ (Len(t) <= MaxSolveCells /\ NextLaplace)

SpecEntryPoints == Init /\ [][NextEntryPoints]_vars

(***************************************************************************)
(* run_shapeDNAtria and run_shapeDNAtetra.  (v, t) is the mesh in the file *)
(* that importVTK reads; options.python and options.num are chosen at the  *)
(* call.  run.trace lists the calls made, run.exported the records handed  *)
(* to exportEV, run.status the status of sys.exit (-1: none).              *)
(***************************************************************************)
\* a record with the counts of elements and of degrees of freedom exchanged
EigenRecordCountsExchanged(dim, nv, nt, n, ev) ==
    [Refine |-> 0, Degree |-> 1, Dimension |-> dim, Elements |-> nv, DoF |-> nt,
     NumEW |-> n, Eigenvalues |-> ev]

\* d = dict(); d['Refine'] = 0; ... d['Eigenvalues'] = ev
EigenRecord(dim, nv, nt, n, ev) ==
    [Refine |-> 0, Degree |-> 1, Dimension |-> dim, Elements |-> nt, DoF |-> nv,
     NumEW |-> n, Eigenvalues |-> ev]

RunStepped(step, call) == [run EXCEPT !.step = step, !.trace = Append(@, call)]

\* run_shapeDNAtria(surf, outev, outsurf, options)
RunShapeDNAtria ==
    /\ pc = "input"
    /\ kind = "tria"
    /\ \E py \in BOOLEAN, n \in 1..MaxK :
          run' = [run EXCEPT !.step = IF py THEN "import" ELSE "cmd",
                             !.python = py, !.num = n]
    /\ pc' = "run"
    /\ UNCHANGED <<meshVars, lump, A, B, err, k, useCholmod, log, OPinv, eigenvalues,
                   factorCalls, eigshCalls, io>>

\* run_shapeDNAtetra(tetmesh, outev, options): in python mode it prints that
\* the option is not supported and exits with status 1
RunShapeDNAtetra ==
    /\ pc = "input"
    /\ kind = "tetra"
    /\ \E py \in BOOLEAN, n \in 1..MaxK :
          run' = IF py
                 THEN [run EXCEPT !.step = "exited", !.python = py, !.num = n,
                                  !.trace = Append(@, "my_print"), !.status = 1]
                 ELSE [run EXCEPT !.step = "cmd", !.python = py, !.num = n]
    /\ pc' = "run"
    /\ UNCHANGED <<meshVars, lump, A, B, err, k, useCholmod, log, OPinv, eigenvalues,
                   factorCalls, eigshCalls, io>>

\* run_cmd(cmd, ...): the binary is not found (exit 1), fails (the
\* CalledProcessError is raised again) or succeeds
RunCmd ==
    /\ pc = "run"
    /\ run.step = "cmd"
    /\ \E outcome \in {"not found", "failed", "ok"} :
          run' = IF outcome = "not found"
                 THEN [run EXCEPT !.step = "exited", !.status = 1,
                                  !.trace = Append(@, "my_print")]
                 ELSE IF outcome = "failed"
                 THEN RunStepped("raised", "check_call")
                 ELSE RunStepped("done", "check_call")
    /\ UNCHANGED <<meshVars, pc, lump, A, B, err, k, useCholmod, log, OPinv, eigenvalues,
                   factorCalls, eigshCalls, io>>

\* v, t = importVTK(surf)
RunImport ==
    /\ pc = "run"
    /\ run.step = "import"
    /\ run' = RunStepped("laplace_call", "importVTK")
    /\ UNCHANGED <<meshVars, pc, lump, A, B, err, k, useCholmod, log, OPinv, eigenvalues,
                   factorCalls, eigshCalls, io>>

\* ev, evec = laplaceTria(v, t, k=options.num): the call
RunLaplaceCall ==
    /\ pc = "run"
    /\ run.step = "laplace_call"
    /\ LaplaceCallWith(run.num, FALSE)
    /\ run' = RunStepped("laplace", "laplaceTria")

\* an exception of laplaceTria leaves run_shapeDNAtria
RunLaplaceRaised ==
    /\ pc = "lap_raised"
    /\ run.step = "laplace"
    /\ run' = [run EXCEPT !.step = "raised"]
    /\ UNCHANGED <<meshVars, pc, lump, A, B, err, k, useCholmod, log, OPinv, eigenvalues,
                   factorCalls, eigshCalls, io>>

\* laplaceTria has returned: d = dict() and its entries
RunBuildRecord ==
    /\ pc = "lap_returned"
    /\ run.step = "laplace"
    /\ run' = [run EXCEPT !.step = "export_ev",
                          !.d = << EigenRecord(2, Len(v), Len(t), run.num, eigenvalues) >>]
    /\ UNCHANGED <<meshVars, pc, lump, A, B, err, k, useCholmod, log, OPinv, eigenvalues,
                   factorCalls, eigshCalls, io>>

\* exportEV(d, outev)
RunExportEV ==
    /\ run.step = "export_ev"
    /\ run' = [RunStepped("export_vtk", "exportEV") EXCEPT !.exported = Append(@, run.d[1])]
    /\ UNCHANGED <<meshVars, pc, lump, A, B, err, k, useCholmod, log, OPinv, eigenvalues,
                   factorCalls, eigshCalls, io>>

\* exportVTK(v, t, outsurf)
RunExportVTK ==
    /\ run.step = "export_vtk"
    /\ run' = RunStepped("done", "exportVTK")
    /\ UNCHANGED <<meshVars, pc, lump, A, B, err, k, useCholmod, log, OPinv, eigenvalues,
                   factorCalls, eigshCalls, io>>

NextRun ==
    \/ RunShapeDNAtria \/ RunShapeDNAtetra \/ RunCmd \/ RunImport
    \/ RunLaplaceCall \/ LaplaceAssemble \/ LaplaceFactorize \/ LaplaceEigsh
    \/ RunLaplaceRaised \/ RunBuildRecord \/ RunExportEV \/ RunExportVTK

SpecRun == InitLaplace /\ [][NextRun]_vars

(***************************************************************************)
(* fsqcUtils.  The readers work on a file; the mesh and the solver are not *)
(* involved and stay as Idle sets them.                                    *)
(***************************************************************************)
Idle ==
    /\ kind = "tria"
    /\ v = << >>
    /\ t = << >>
    /\ pc = "idle"
    /\ lump = FALSE
    /\ A = None
    /\ B = None
    /\ err = ""
    /\ k = 0
    /\ useCholmod = FALSE
    /\ log = << >>
    /\ OPinv = "none"
    /\ eigenvalues = -1
    /\ factorCalls = << >>
    /\ eigshCalls = << >>
    /\ run = NotRunning

idleVars ==
    <<kind, v, t, pc, lump, A, B, err, k, useCholmod, log, OPinv, eigenvalues,
      factorCalls, eigshCalls, run>>

(***************************************************************************)
(* importMGH(filename).  The file is its header fields: the seven          *)
(* integers are read whatever they hold, ras_good_flag steers the reading, *)
(* the dimensions give the number of voxels.  The file is long enough for  *)
(* every read.                                                             *)
(***************************************************************************)
\* struct.calcsize(">i"), (">h"), (">f"), (">b")
intsize == 4

shortsize == 2

floatsize == 4

charsize == 1

UNUSED_SPACE_SIZE == 256

\* space for ras transform
USED_SPACE_SIZE == (3 * 4) + (4 * 3 * 4)

\* the sum of xs[lo..hi]
RECURSIVE SumRange(_, _, _)
SumRange(xs, lo, hi) ==
    IF lo > hi THEN 0
    ELSE IF lo = hi THEN xs[lo]
    ELSE SumRange(xs, lo, (lo + hi) \div 2) + SumRange(xs, (lo + hi) \div 2 + 1, hi)

\* the position of fp after reads of these sizes
SumInts(xs) == SumRange(xs, 1, Len(xs))

\* if ras_good_flag: delta, Mdc, Pxyz_c are read
RasBlockReads(ras_good_flag) ==
    IF ras_good_flag # 0 THEN << floatsize * 3, floatsize * 9, floatsize * 3 >> ELSE << >>

\* for i in range(unused_space_size): one char each
PaddingReads == [i \in 1..((UNUSED_SPACE_SIZE - 2) - USED_SPACE_SIZE) |-> charsize]

\* the sizes of the fp.read calls before the voxel data, in order
HeaderReads(ras_good_flag) ==
    [i \in 1..7 |-> intsize] \o << shortsize >> \o RasBlockReads(ras_good_flag) \o PaddingReads

\* numpy.squeeze: the axes of length 1 are dropped
RECURSIVE Squeeze(_)
Squeeze(shape) ==
    IF shape = << >> THEN << >>
    ELSE IF shape[1] = 1 THEN Squeeze(Tail(shape))
    ELSE << shape[1] >> \o Squeeze(Tail(shape))

\* the header fields of the files read
MGHFiles ==
    [exists : BOOLEAN, ras_good_flag : {-1, 0, 1},
     ndim1 : 1..MaxDim, ndim2 : 1..MaxDim, ndim3 : 1..MaxDim, nframes : 1..MaxDim]

InitMGH ==
    /\ Idle
    /\ \E f \in MGHFiles :
          io = [fn |-> "importMGH", step |-> "call", file |-> f, opened |-> FALSE,
                warned |-> FALSE, reads |-> << >>, offset |-> 0, voxelBytes |-> 0,
                result |-> << >>]

\* importMGH without the test of os.path.exists: open raises on a missing file
ImportMGHWithoutTest ==
    /\ io.fn = "importMGH"
    /\ io.step = "call"
    /\ io' = IF ~io.file.exists
             THEN [io EXCEPT !.step = "raised", !.opened = TRUE,
                             !.result = << "FileNotFoundError" >>]
             ELSE [io EXCEPT !.step = "returned", !.opened = TRUE]
    /\ UNCHANGED idleVars

\* importMGH(filename): NaN for a missing file; else the header is read, then
\* nv floats from where the header reading ended
ImportMGH ==
    /\ io.fn = "importMGH"
    /\ io.step = "call"
    /\ io' = IF ~io.file.exists
             THEN [io EXCEPT !.step = "returned", !.warned = TRUE, !.result = << "nan" >>]
             ELSE [io EXCEPT !.step = "returned",
                             !.opened = TRUE,
                             !.reads = HeaderReads(io.file.ras_good_flag),
                             !.offset = SumInts(HeaderReads(io.file.ras_good_flag)),
                             !.voxelBytes = floatsize * (io.file.ndim1 * io.file.ndim2
                                                * io.file.ndim3 * io.file.nframes),
                             !.result = Squeeze(<< io.file.ndim1, io.file.ndim2,
                                                   io.file.ndim3, io.file.nframes >>)]
    /\ UNCHANGED idleVars

NextMGH == ImportMGH

SpecMGH == InitMGH /\ [][NextMGH]_vars

(***************************************************************************)
(* readLTA(file).  A line is the sequence of its words, the words being    *)
(* what blanks separate.  re.match looks at the start of the line.         *)
(***************************************************************************)
\* the words that int() and float() accept, and their values
IntWords == {ToString(n) : n \in -MaxNumber..MaxNumber}

DecimalWords == {ToString(n) \o ".0" : n \in -MaxNumber..MaxNumber}

IntOf(w) == CHOOSE n \in -MaxNumber..MaxNumber : ToString(n) = w

FloatOf(w) ==
    IF w \in IntWords THEN IntOf(w)
    ELSE CHOOSE n \in -MaxNumber..MaxNumber : ToString(n) \o ".0" = w

\* the words of lowercase letters only that occur in the files
LowercaseWords ==
    {"type", "nxforms", "mean", "sigma", "src", "dst", "volume", "info", "valid",
     "filename", "voxelsize", "xras", "yras", "zras", "cras"}

\* re.match(words, line): the line starts with these words
StartsWith(line, words) ==
    Len(line) >= Len(words) /\ SubSeq(line, 1, Len(words)) = words

\* re.match of the pattern of a matrix row: four numbers with a decimal point
IsMatrixRow(line) == Len(line) >= 4 /\ \A j \in 1..4 : line[j] \in DecimalWords

RECURSIVE SelectWords(_, _)
SelectWords(line, drop) ==
    IF line = << >> THEN << >>
    ELSE IF line[1] \in drop THEN SelectWords(Tail(line), drop)
    ELSE << line[1] >> \o SelectWords(Tail(line), drop)

\* re.sub("#.*", "", line): the comment is cut off
RECURSIVE StripComment(_)
StripComment(line) ==
    IF line = << >> \/ line[1] = "#" THEN << >>
    ELSE << line[1] >> \o StripComment(Tail(line))

\* re.sub("=", "", re.sub("[a-z]+", "", re.sub("#.*", "", line))).strip()
HeaderValue(line) == SelectWords(StripComment(line), LowercaseWords \cup {"="})

\* re.sub(".*=", "", re.sub("#.*", "", line)).strip(): what follows the last "="
RECURSIVE AfterLastEquals(_)
AfterLastEquals(line) ==
    IF \A j \in DOMAIN line : line[j] # "=" THEN line
    ELSE AfterLastEquals(Tail(line))

BlockValue(line) == AfterLastEquals(StripComment(line))

\* The conversions give << value >>, or << >> where python raises ValueError.
\* int(s)
ParseInt(ws) == IF Len(ws) = 1 /\ ws[1] \in IntWords THEN << IntOf(ws[1]) >> ELSE << >>

\* float(s)
ParseFloat(ws) ==
    IF Len(ws) = 1 /\ ws[1] \in IntWords \cup DecimalWords THEN << FloatOf(ws[1]) >>
    ELSE << >>

\* [float(x) for x in re.split(" +", s)]
ParseFloats(ws) ==
    IF ws # << >> /\ \A j \in DOMAIN ws : ws[j] \in IntWords \cup DecimalWords
    THEN << [j \in DOMAIN ws |-> FloatOf(ws[j])] >>
    ELSE << >>

\* [int(x) for x in re.split(" +", s)]
ParseInts(ws) ==
    IF ws # << >> /\ \A j \in DOMAIN ws : ws[j] \in IntWords
    THEN << [j \in DOMAIN ws |-> IntOf(ws[j])] >>
    ELSE << >>

\* re.split(" +", s): the words
SplitWords(ws) == << ws >>

\* d[key] = value
Put(d, key, value) == [x \in DOMAIN d \cup {key} |-> IF x = key THEN value ELSE d[x]]

\* the reader raises e
Raised(r, e) == [r EXCEPT !.step = "raised", !.err = e]

\* d[key] = the parsed value and i += n, or the ValueError of the conversion
Store(r, key, parsed, n) ==
    IF parsed = << >> THEN Raised(r, "ValueError")
    ELSE [r EXCEPT !.d = Put(@, key, parsed[1]), !.i = @ + n]

\* the branch of the matrix: the rows are lta[i] .. lta[i + 3]
StoreMatrix(r) ==
    IF r.i + 4 > Len(r.lta) THEN Raised(r, "IndexError")
    ELSE IF \E j \in 1..4 : ~IsMatrixRow(r.lta[r.i + j]) THEN Raised(r, "AttributeError")
    ELSE IF \E j \in 1..4 : ParseFloats(r.lta[r.i + j]) = << >> THEN Raised(r, "ValueError")
    ELSE [r EXCEPT !.d = Put(@, "lta", [j \in 1..4 |-> ParseFloats(r.lta[r.i + j])[1]]),
                   !.i = @ + 4]

\* one iteration of the outer loop, on the line lta[i]
OuterIteration(r) ==
    LET line == r.lta[r.i + 1]
    IN  IF StartsWith(line, << "type" >>) THEN Store(r, "type", ParseInt(HeaderValue(line)), 1)
        ELSE IF StartsWith(line, << "nxforms" >>)
        THEN Store(r, "nxforms", ParseInt(HeaderValue(line)), 1)
        ELSE IF StartsWith(line, << "mean" >>)
        THEN Store(r, "mean", ParseFloats(HeaderValue(line)), 1)
        ELSE IF StartsWith(line, << "sigma" >>)
        THEN Store(r, "sigma", ParseFloat(HeaderValue(line)), 1)
        ELSE IF IsMatrixRow(line) THEN StoreMatrix(r)
        ELSE IF StartsWith(line, << "src", "volume", "info" >>) THEN [r EXCEPT !.mode = "src"]
        ELSE IF StartsWith(line, << "dst", "volume", "info" >>) THEN [r EXCEPT !.mode = "dst"]
        ELSE [r EXCEPT !.i = @ + 1]

\* one iteration of the loop of a block, which fills the keys prefix_*
BlockIteration(r, prefix) ==
    LET line == r.lta[r.i + 1]
    IN  IF StartsWith(line, << "valid" >>)
        THEN Store(r, prefix \o "valid", ParseInt(BlockValue(line)), 1)
        ELSE IF StartsWith(line, << "filename" >>)
        THEN Store(r, prefix \o "filename", SplitWords(BlockValue(line)), 1)
        ELSE IF StartsWith(line, << "volume" >>)
        THEN Store(r, prefix \o "volume", ParseInts(BlockValue(line)), 1)
        ELSE IF \E w \in {"voxelsize", "xras", "yras", "zras", "cras"} : StartsWith(line, << w >>)
        THEN Store(r, prefix \o line[1], ParseFloats(BlockValue(line)), 1)
        ELSE [r EXCEPT !.i = @ + 1]

\* np.concatenate of the columns xras, yras, zras, cras and the row 0 0 0 1
FullMatrix(d, prefix) ==
    [row \in 1..4 |->
        IF row = 4 THEN << 0, 0, 0, 1 >>
        ELSE << d[prefix \o "xras"][row], d[prefix \o "yras"][row],
                d[prefix \o "zras"][row], d[prefix \o "cras"][row] >>]

ColumnKeys(prefix) == {prefix \o w : w \in {"xras", "yras", "zras", "cras"}}

\* after the loop: d["src"], d["dst"] and the return
Finish(r) ==
    IF ~(ColumnKeys("src_") \cup ColumnKeys("dst_") \subseteq DOMAIN r.d)
    THEN Raised(r, "KeyError")
    ELSE IF \E key \in ColumnKeys("src_") \cup ColumnKeys("dst_") : Len(r.d[key]) # 3
    THEN Raised(r, "ValueError")
    ELSE [r EXCEPT !.step = "returned",
                   !.d = Put(Put(@, "src", FullMatrix(r.d, "src_")),
                             "dst", FullMatrix(r.d, "dst_"))]

\* The files read: the header with the type field, with or without its
\* comment; no matrix, a matrix cut short or a whole one; the two blocks of
\* volume info in either order, each with or without its cras line.
TypeLine(ty, commented) ==
    << "type", "=", ToString(ty) >>
        \o (IF commented THEN << "#", "LINEAR_RAS_TO_RAS" >> ELSE << >>)

HeaderLines(ty, commented) ==
    << TypeLine(ty, commented), << "nxforms", "=", "1" >>,
       << "mean", "=", "0.0", "0.0", "0.0" >>, << "sigma", "=", "1.0" >> >>

MatrixLines(rows) ==
    SubSeq(<< << "1.0", "0.0", "0.0", "0.0" >>, << "0.0", "1.0", "0.0", "0.0" >>,
              << "0.0", "0.0", "1.0", "0.0" >>, << "0.0", "0.0", "0.0", "1.0" >> >>, 1, rows)

BlockLines(name, c, complete) ==
    << << name, "volume", "info" >>,
       << "valid", "=", "1", "#", "volume", "info", "valid" >>,
       << "filename", "=", name \o ".mgz" >>,
       << "volume", "=", "2", "2", "2" >>,
       << "voxelsize", "=", "1.0", "1.0", "1.0" >>,
       << "xras", "=", "-1.0", "0.0", "0.0" >>,
       << "yras", "=", "0.0", "0.0", "-1.0" >>,
       << "zras", "=", "0.0", "1.0", "0.0" >> >>
        \o (IF complete THEN << << "cras", "=", c, c, c >> >> ELSE << >>)

LTAFiles ==
    { HeaderLines(ty, commented) \o MatrixLines(rows)
        \o (IF srcFirst
            THEN BlockLines("src", "1.0", srcComplete) \o BlockLines("dst", "2.0", dstComplete)
            ELSE BlockLines("dst", "2.0", dstComplete) \o BlockLines("src", "1.0", srcComplete)) :
        ty \in 0..MaxType, commented \in BOOLEAN, rows \in {0, 2, 4},
        srcFirst \in BOOLEAN, srcComplete \in BOOLEAN, dstComplete \in BOOLEAN }

\* with open(file) as f: lta = f.readlines(); d = dict(); i = 0
InitLTA ==
    /\ Idle
    /\ \E f \in LTAFiles :
          io = [fn |-> "readLTA", step |-> "loop", lta |-> f, i |-> 0, mode |-> "outer",
                d |-> << >>, err |-> "", iters |-> << >>]

\* the record r2 an iteration makes of r, with the iteration noted in iters:
\* the loop it belongs to, the index before and after, the keys of d it
\* set, and whether it ran to its end
Iteration(r, r2) ==
    [r2 EXCEPT !.iters =
        Append(@, [mode |-> r.mode, from |-> r.i, to |-> r2.i, done |-> r2.step = "loop",
                   wrote |-> {key \in DOMAIN r2.d :
                                 key \notin DOMAIN r.d \/ r2.d[key] # r.d[key]}])]

\* the loop of a block that stops at the end of the file only
ReadLTABlockToEnd(prefix, other) ==
    /\ io.fn = "readLTA" /\ io.step = "loop" /\ io.mode = prefix
    /\ io' = IF io.i < Len(io.lta)
             THEN Iteration(io, BlockIteration(io, prefix \o "_"))
             ELSE [io EXCEPT !.mode = "outer"]
    /\ UNCHANGED idleVars

\* while i < len(lta): one iteration
ReadLTAOuter ==
    /\ io.fn = "readLTA" /\ io.step = "loop" /\ io.mode = "outer"
    /\ io.i < Len(io.lta)
    /\ io' = Iteration(io, OuterIteration(io))
    /\ UNCHANGED idleVars

\* the loop of a block: while i < len(lta) and the line is not the header
\* of the other block
ReadLTABlock(prefix, other) ==
    /\ io.fn = "readLTA" /\ io.step = "loop" /\ io.mode = prefix
    /\ io' = IF io.i < Len(io.lta) /\ ~StartsWith(io.lta[io.i + 1], << other, "volume", "info" >>)
             THEN Iteration(io, BlockIteration(io, prefix \o "_"))
             ELSE [io EXCEPT !.mode = "outer"]
    /\ UNCHANGED idleVars

ReadLTASrcBlock == ReadLTABlock("src", "dst")

ReadLTADstBlock == ReadLTABlock("dst", "src")

\* the loop has ended
ReadLTAFinish ==
    /\ io.fn = "readLTA" /\ io.step = "loop" /\ io.mode = "outer"
    /\ io.i >= Len(io.lta)
    /\ io' = Finish(io)
    /\ UNCHANGED idleVars

NextLTA == ReadLTAOuter \/ ReadLTASrcBlock \/ ReadLTADstBlock \/ ReadLTAFinish

SpecLTA == InitLTA /\ [][NextLTA]_vars

\* the interpreter goes on with the next statement as long as there is one
SpecLTAFair == SpecLTA /\ WF_vars(NextLTA)

(***************************************************************************)
(* applyTransform(img_file, out_file, mat_file, interp) of fsqcUtils.py.   *)
(* While readLTA reads mat_file the record io is the reader's, with the    *)
(* fields of the caller kept in it; io.out_file is what nb.save has        *)
(* written.                                                                *)
(***************************************************************************)
\* the branches on lta["type"] with every type but 1 taken as vox2vox
TransformMatrixOfAnyType(d) ==
    IF "type" \notin DOMAIN d THEN << "raise", "KeyError" >>
    ELSE IF d["type"] = 1 THEN << "raise", "Exception: lta type 1" >>
    ELSE IF "lta" \in DOMAIN d THEN << "m", d["lta"] >>
    ELSE << "raise", "KeyError" >>

\* the branches on lta["type"]: m is bound for type 0 only
TransformMatrix(d) ==
    IF "type" \notin DOMAIN d THEN << "raise", "KeyError" >>
    ELSE IF d["type"] = 1 THEN << "raise", "Exception: lta type 1" >>
    ELSE IF d["type"] = 0
         THEN IF "lta" \in DOMAIN d THEN << "m", d["lta"] >> ELSE << "raise", "KeyError" >>
    ELSE << "unbound" >>

\* the arguments: the image file is there or not, the matrix file has one
\* of three extensions, interp is one of three words
InitTransform ==
    /\ Idle
    /\ \E f \in LTAFiles, ext \in {".xfm", ".lta", ".dat"}, img \in BOOLEAN,
          interp \in {"nearest", "cubic", "linear"} :
          io = [fn |-> "applyTransform", step |-> "call", lta |-> f, i |-> 0,
                mode |-> "outer", d |-> << >>, err |-> "", iters |-> << >>,
                caller |-> "applyTransform",
                img |-> img, ext |-> ext, interp |-> interp, out_file |-> << >>]

\* nb.load, then the test of the extension; readLTA is called for .lta
ApplyTransformCall ==
    /\ io.fn = "applyTransform"
    /\ io.step = "call"
    /\ io' = IF ~io.img THEN Raised(io, "FileNotFoundError")
             ELSE IF io.ext = ".xfm" THEN Raised(io, "Exception: xfm")
             ELSE IF io.ext = ".lta" THEN [io EXCEPT !.fn = "readLTA", !.step = "loop"]
             ELSE Raised(io, "Exception: xfm or lta")
    /\ UNCHANGED idleVars

\* after readLTA: its exception goes on to the caller; else the type is
\* tested, the image is resampled by interp and nb.save writes out_file
ApplyTransformResume ==
    /\ io.fn = "readLTA"
    /\ io.caller = "applyTransform"
    /\ io.step \in {"returned", "raised"}
    /\ \E r \in {[io EXCEPT !.fn = "applyTransform"]}, m \in {TransformMatrix(io.d)} :
          io' = IF io.step = "raised" THEN r
                ELSE IF m[1] = "raise" THEN Raised(r, m[2])
                ELSE IF io.interp \notin {"nearest", "cubic"}
                THEN Raised(r, "Exception: interpolation")
                ELSE IF m[1] = "unbound" THEN Raised(r, "UnboundLocalError")
                ELSE [r EXCEPT !.step = "returned",
                               !.out_file = << [order |-> IF io.interp = "nearest" THEN 0
                                                          ELSE 3,
                                                matrix |-> m[2]] >>]
    /\ UNCHANGED idleVars

NextTransform == ApplyTransformCall \/ NextLTA \/ ApplyTransformResume

SpecTransform == InitTransform /\ [][NextTransform]_vars

(***************************************************************************)
(* levelsetsTria(v, t, p, levelsets) of fsqcUtils.py.  Vertex indices are  *)
(* those of numpy, from 0; io.levelsets is the array np.array(levelsets,   *)
(* ndmin=2), whose rows the outer loop visits; io.A is the matrix of the   *)
(* indices of the points already interpolated, io.vi and io.ti the lists   *)
(* of the level under way.                                                 *)
(***************************************************************************)
\* nlvl[tria, :] = p[t[tria, :]] > lvl, lvl broadcast along the corners
Above(p, tria, lvl) ==
    [j \in 1..3 |-> p[tria[j]] > lvl[IF Len(lvl) = 1 THEN 1 ELSE j]]

\* np.sum(nlvl, axis=1) of one triangle
CountAbove(p, tria, lvl) == Cardinality({j \in 1..3 : Above(p, tria, lvl)[j]})

\* n: the triangles with one or two corners above, in ascending order
SelectedTrias(p, tt, lvl) ==
    LET S == {c \in DOMAIN tt : CountAbove(p, tt[c], lvl) \in {1, 2}}
    IN  [m \in 1..Cardinality(S) |->
            CHOOSE c \in S : Cardinality({x \in S : x < c}) = m - 1]

\* oi: the corner that is alone on its side of the level
oi(p, tria, lvl) ==
    IF CountAbove(p, tria, lvl) = 2
    THEN CHOOSE j \in 1..3 : ~Above(p, tria, lvl)[j]
    ELSE CHOOSE j \in 1..3 : Above(p, tria, lvl)[j]

\* oix: the two other corners, in ascending order
oix(p, tria, lvl) ==
    LET rest == (1..3) \ {oi(p, tria, lvl)}
    IN  << CHOOSE j \in rest : \A x \in rest : j <= x,
           CHOOSE j \in rest : \A x \in rest : j >= x >>

\* np.count_nonzero(A[a, b]) != 0: the edge a, b has its point already
SeenBefore(AA, a, b) == AA[<< a, b >>] # 0

\* s = (lvl - p[a]) / (p[b] - p[a]), one factor per entry of lvl, and the
\* point s * (v[b] - v[a]) + v[a]
NewPoint(vv, p, lvl, a, b) ==
    LET s == [j \in 1..Len(lvl) |-> Div(FromInt(lvl[j] - p[a]), FromInt(p[b] - p[a]))]
    IN  [a |-> a, b |-> b, s |-> s,
         xyz |-> [c \in 1..3 |->
                     Add(Mul(s[IF Len(lvl) = 1 THEN 1 ELSE c], FromInt(vv[b][c] - vv[a][c])),
                         FromInt(vv[a][c]))]]

\* one of the two halves of the loop body: the index of the point of the
\* edge a, b in r.vi, interpolated now if A has no entry for the edge
Interpolate(r, lvl, a, b) ==
    IF SeenBefore(r.A, a, b) THEN [r EXCEPT !.last = r.A[<< a, b >>]]
    ELSE [r EXCEPT !.vi = Append(@, NewPoint(r.v, r.p, lvl, a, b)),
                   !.last = Len(r.vi) + 1,
                   !.A = [e \in DOMAIN @ |->
                             IF e \in {<< a, b >>, << b, a >>} THEN Len(r.vi) + 1 ELSE @[e]]]

\* the body of the loop over n for triangle tria: ti10, ti20 and the pair
TriaIteration(r, lvl, tria) ==
    LET o  == tria[oi(r.p, tria, lvl)]
        x  == oix(r.p, tria, lvl)
        r1 == Interpolate(r, lvl, o, tria[x[1]])
        r2 == Interpolate(r1, lvl, o, tria[x[2]])
    IN  [r2 EXCEPT !.ti = Append(@, << r1.last, r2.last >>), !.i = @ + 1]

\* the meshes: up to MaxTrias triangles, in every order, out of three that
\* share the edge 0, 1 in both directions; p from 0 to MaxP at each vertex
LevelTrias == {<< 0, 1, 2 >>, << 1, 0, 3 >>, << 3, 1, 0 >>}

LevelMeshes == UNION {[1..m -> LevelTrias] : m \in 1..MaxTrias}

\* np.array(levelsets, ndmin=2) of a number, of a column of two levels, of
\* a list of two levels and of lists of three levels
LevelsetArrays ==
    {<< << l >> >> : l \in 0..1}
        \cup {<< << 0 >>, << 1 >> >>, << << 0, 1 >> >>, << << 0, 1, 2 >> >>, << << 1, 0, 0 >> >>}

InitLevelsets ==
    /\ Idle
    /\ \E tt \in LevelMeshes, pp \in [0..3 -> 0..MaxP], ll \in LevelsetArrays :
          io = [fn |-> "levelsetsTria", step |-> "level",
                v |-> [x \in 0..3 |-> [c \in 1..3 |-> IF x = c THEN 1 ELSE 0]],
                t |-> tt, p |-> pp, levelsets |-> ll, lidx |-> 0, n |-> << >>, i |-> 0,
                A |-> [e \in (0..3) \X (0..3) |-> 0], vi |-> << >>, ti |-> << >>, last |-> 0,
                vLVL |-> << >>, lLVL |-> << >>, iLVL |-> << >>, err |-> ""]

\* for lidx in range(len(levelsets)): A, lvl, nlvl and n of the level; the
\* comparison p[t] > lvl raises if lvl has neither one entry nor three
LevelsetsLevel ==
    /\ io.fn = "levelsetsTria"
    /\ io.step = "level"
    /\ io' = IF io.lidx >= Len(io.levelsets) THEN [io EXCEPT !.step = "returned"]
             ELSE IF Len(io.levelsets[io.lidx + 1]) \notin {1, 3}
             THEN [io EXCEPT !.step = "raised", !.err = "ValueError"]
             ELSE [io EXCEPT !.step = "tria",
                             !.A = [e \in DOMAIN @ |-> 0],
                             !.n = SelectedTrias(io.p, io.t, io.levelsets[io.lidx + 1]),
                             !.i = 0, !.vi = << >>, !.ti = << >>]
    /\ UNCHANGED idleVars

\* for i in range(len(n)): one triangle
LevelsetsTria ==
    /\ io.fn = "levelsetsTria"
    /\ io.step = "tria"
    /\ io.i < Len(io.n)
    /\ io' = TriaIteration(io, io.levelsets[io.lidx + 1], io.t[io.n[io.i + 1]])
    /\ UNCHANGED idleVars

\* after the loop over n: vLVL, lLVL and iLVL get the lists of the level
LevelsetsStore ==
    /\ io.fn = "levelsetsTria"
    /\ io.step = "tria"
    /\ io.i >= Len(io.n)
    /\ io' = [io EXCEPT !.step = "level", !.lidx = @ + 1,
                        !.vLVL = Append(@, io.vi), !.lLVL = Append(@, io.ti),
                        !.iLVL = Append(@, io.n)]
    /\ UNCHANGED idleVars

NextLevelsets == LevelsetsLevel \/ LevelsetsTria \/ LevelsetsStore

SpecLevelsets == InitLevelsets /\ [][NextLevelsets]_vars

(***************************************************************************)
(* The script fs_shapeDNA.py: the statements run when the module is        *)
(* loaded, options_parse, and main with the surface functions it calls.    *)
(* io.env is os.environ, io.filters the warning filters of the process,    *)
(* io.cmds the commands handed to subprocess.check_call, each with how it  *)
(* ended, io.files the files of the output directory.                      *)
(***************************************************************************)
\* the states of the file system options_parse can meet: everything in
\* place, or one of the things it tests is missing
Missing == {"nothing", "sdir", "sid", "subjdir", "hsf", "outdir", "vtk", "label"}

\* the command line and what the file system answers to options_parse
CommandLines ==
    [python : BOOLEAN, dotet : BOOLEAN, asegid : BOOLEAN, hsfid : BOOLEAN,
     surf : BOOLEAN, label : BOOLEAN, aparcid : BOOLEAN,
     hemi : {"None", "lh", "rh", "both"}, sdna : BOOLEAN, tetra : BOOLEAN,
     missing : Missing]

\* os.environ when the interpreter starts
Environments ==
    [OMP_NUM_THREADS : {"None", "4"}, FREESURFER_HOME : {"None", "/fs"},
     SHAPEDNA_HOME : {"None", "/sdna"}]

InitMain ==
    /\ Idle
    /\ \E e \in Environments :
          io = [fn |-> "fs_shapeDNA", step |-> "start", at |-> 0, env |-> e,
                filters |-> << >>, options |-> << >>, norm |-> FALSE, cmds |-> << >>,
                files |-> {}, surf |-> "None", called |-> "", err |-> "", status |-> -1,
                parsed |-> FALSE]

\* the settings that are statements of the module: lines 37 and 38
LoadModule ==
    /\ io.fn = "fs_shapeDNA"
    /\ io.step = "start"
    /\ io' = [io EXCEPT !.step = "loaded",
                        !.filters = << << "ignore", ".*negative int.*" >> >> \o @,
                        !.env = [@ EXCEPT !.OMP_NUM_THREADS = "1"]]
    /\ UNCHANGED idleVars

\* sys.exit(1)
Exit1 == [step |-> "exited", err |-> "", status |-> 1]

\* options_parse(): the outcome of the tests, in the order of the code, for
\* environment e and command line o
options_parse(e, o) ==
    IF e.FREESURFER_HOME = "None" THEN Exit1
    ELSE IF ~o.python /\ e.SHAPEDNA_HOME = "None" THEN Exit1
    ELSE IF e.SHAPEDNA_HOME = "None"
         THEN [step |-> "raised", err |-> "TypeError: join", status |-> -1]
    ELSE IF ~o.python /\ ~o.sdna /\ ~o.dotet THEN Exit1
    ELSE IF ~o.python /\ ~o.tetra /\ o.dotet THEN Exit1
    ELSE IF o.missing \in {"sdir", "sid", "subjdir"} THEN Exit1
    ELSE IF o.label /\ ~o.surf THEN Exit1
    ELSE IF o.aparcid /\ ~o.surf THEN Exit1
    ELSE IF ~o.asegid /\ ~o.surf /\ ~o.hsfid THEN Exit1
    ELSE IF Cardinality({x \in {"asegid", "surf", "hsfid"} : o[x]}) > 1 THEN Exit1
    ELSE IF o.hsfid /\ o.hemi = "None" THEN Exit1
    ELSE IF o.hemi \notin {"None", "lh", "rh"} THEN Exit1
    ELSE IF o.hsfid /\ o.hemi \in {"lh", "rh"} /\ o.missing = "hsf" THEN Exit1
    ELSE IF o.missing \in {"outdir", "vtk"} THEN Exit1
    ELSE IF o.label /\ o.missing = "label" THEN Exit1
    ELSE [step |-> "parsed", err |-> "", status |-> -1]

\* main, line 1105: options = options_parse()
OptionsParse ==
    /\ io.fn = "fs_shapeDNA"
    /\ io.step = "loaded"
    /\ \E o \in CommandLines :
          \E r \in {options_parse(io.env, o)} :
             io' = [io EXCEPT !.options = o, !.step = r.step, !.err = r.err,
                              !.status = r.status, !.parsed = (r.step = "parsed")]
    /\ UNCHANGED idleVars

\* run_cmd(cmd, err_msg) without the raise: a failed command is only reported
run_cmdReportOnly(r, cmd, outcome, creates, removes) ==
    IF outcome = "not found"
    THEN [r EXCEPT !.step = "exited", !.status = 1]
    ELSE [r EXCEPT !.cmds = Append(@, << cmd, outcome >>), !.at = @ + 1,
                   !.files = IF outcome = "failed" THEN @ ELSE (@ \cup creates) \ removes]

\* run_cmd(cmd, err_msg) in record r: exit 1 if the program is not in the
\* path, else check_call, which raises if the command fails; a command that
\* succeeds has written the files `creates' and deleted the files `removes'
run_cmd(r, cmd, outcome, creates, removes) ==
    IF outcome = "not found"
    THEN [r EXCEPT !.step = "exited", !.status = 1]
    ELSE IF outcome = "failed"
    THEN [r EXCEPT !.step = "raised", !.err = "CalledProcessError",
                   !.cmds = Append(@, << cmd, outcome >>)]
    ELSE [r EXCEPT !.cmds = Append(@, << cmd, outcome >>), !.at = @ + 1,
                   !.files = (@ \cup creates) \ removes]

Outcomes == {"not found", "failed", "ok"}

\* main, lines 1107 to 1121: the branch taken; get_hsf_surf has five
\* parameters and is called with four arguments
MainBranch ==
    /\ io.fn = "fs_shapeDNA"
    /\ io.step = "parsed"
    /\ io' = IF io.options.asegid THEN [io EXCEPT !.step = "get_aseg_surf", !.at = 1]
             ELSE IF io.options.hsfid
                  THEN [io EXCEPT !.step = "raised", !.err = "TypeError: get_hsf_surf"]
             ELSE IF io.options.label THEN [io EXCEPT !.step = "get_label_surf"]
             ELSE IF io.options.aparcid THEN [io EXCEPT !.step = "get_aparc_surf"]
             ELSE IF io.options.surf
                  THEN [io EXCEPT !.step = "bound", !.surf = "surf"]
             ELSE [io EXCEPT !.step = "raised", !.err = "NameError"]
    /\ UNCHANGED idleVars

\* get_aseg_surf(sdir, sid, asegid, outsurf): one run_cmd per step
GetAsegSurf ==
    /\ io.fn = "fs_shapeDNA"
    /\ io.step = "get_aseg_surf"
    /\ \E outcome \in Outcomes, isfile \in BOOLEAN :
          io' = CASE io.at = 1 ->
                       run_cmd(io, "mri_binarize", outcome, {"segf"}, {})
                  [] io.at = 2 ->
                       IF isfile
                       THEN run_cmd([io EXCEPT !.norm = TRUE], "mri_pretess", outcome,
                                    {"segf"}, {})
                       ELSE IF "segf" \notin io.files
                       THEN run_cmd(io, "cp", outcome, {"segf"}, {})
                       ELSE [io EXCEPT !.at = 3]
                  [] io.at = 3 ->
                       run_cmd(io, "mri_mc", outcome, {"segsurf"}, {})
                  [] io.at = 4 ->
                       run_cmd(io, "mris_convert", outcome, {"outsurf"}, {})
                  [] io.at = 5 ->
                       run_cmd(io, "rm segf", outcome, {}, {"segf"})
                  [] io.at = 6 ->
                       run_cmd(io, "rm segsurf", outcome, {}, {"segsurf"})
                  [] OTHER ->
                       [io EXCEPT !.step = "bound", !.surf = "outsurf"]
    /\ UNCHANGED idleVars

\* get_label_surf and get_aparc_surf: their commands run one after another;
\* the first that is not found or fails ends the call
GetLabelSurf ==
    /\ io.fn = "fs_shapeDNA"
    /\ io.step \in {"get_label_surf", "get_aparc_surf"}
    /\ \E outcome \in Outcomes :
          io' = IF outcome = "ok"
                THEN [io EXCEPT !.step = "bound", !.surf = "outsurf",
                                !.files = @ \cup {"outsurf"}]
                ELSE run_cmd(io, IF io.step = "get_label_surf" THEN "label2patch"
                                 ELSE "mri_annotation2label", outcome, {}, {})
    /\ UNCHANGED idleVars

\* main, lines 1128 to 1130: get_tetmesh(surf, outtet, fixiter), whose
\* commands run one after another; the first that is not found or fails ends it
GetTetmesh ==
    /\ io.fn = "fs_shapeDNA"
    /\ io.step = "bound"
    /\ io.options.dotet
    /\ \E outcome \in Outcomes :
          io' = IF outcome = "ok"
                THEN [io EXCEPT !.step = "tetmesh", !.called = "get_tetmesh",
                                !.files = @ \cup {"outtet"}]
                ELSE run_cmd([io EXCEPT !.called = "get_tetmesh"], "mris_convert",
                             outcome, {}, {})
    /\ UNCHANGED idleVars

\* main, lines 1131 to 1137: run_shapeDNAtetra on the mesh or run_shapeDNAtria
\* on the surface, then sys.exit(0); the binary is a command, the Python
\* version a call of laplaceTetra or laplaceTria that can raise
MainRun ==
    /\ io.fn = "fs_shapeDNA"
    /\ \/ io.step = "bound" /\ ~io.options.dotet
       \/ io.step = "tetmesh"
    /\ \E outcome \in Outcomes :
          /\ outcome = "not found" => ~io.options.python
          /\ \E r \in {[io EXCEPT !.called = IF io.options.dotet THEN "run_shapeDNAtetra"
                                              ELSE "run_shapeDNAtria"]} :
                io' = IF outcome = "ok"
                      THEN [r EXCEPT !.step = "exited", !.status = 0,
                                     !.files = @ \cup {"outev"}]
                      ELSE IF io.options.python
                      THEN [r EXCEPT !.step = "raised", !.err = "ValueError"]
                      ELSE run_cmd(r, IF io.options.dotet THEN "shapeDNA-tetra"
                                      ELSE "shapeDNA-tria", outcome, {}, {})
    /\ UNCHANGED idleVars

NextMain ==
    LoadModule \/ OptionsParse \/ MainBranch \/ GetAsegSurf \/ GetLabelSurf \/ GetTetmesh
        \/ MainRun

SpecMain == InitMain /\ [][NextMain]_vars

(***************************************************************************)
(* C1: every row of the assembled stiffness matrix A sums to zero, for     *)
(* every triangle and every tetrahedral mesh.                              *)
(***************************************************************************)
C1_RowSumsZero ==
    pc = "returned" => \A i \in Idx(A) : RowSum(A, i) = Zero

\* the rows of A sum to zero whenever the guard left every divisor positive
RowSumsZeroIfGuarded ==
    (pc = "returned" /\ ~AllDegenerate) => \A i \in Idx(A) : RowSum(A, i) = Zero

(***************************************************************************)
(* C2: the returned A and B are symmetric, lumped or not: the entries at   *)
(* (i, j) and (j, i) are the same value (a non-finite entry included).     *)
(***************************************************************************)
C2_Symmetric ==
    pc = "returned" =>
        /\ A.shape[1] = A.shape[2]
        /\ B.shape[1] = B.shape[2]
        /\ \A i, j \in Idx(A) : A.M[<<i, j>>] = A.M[<<j, i>>]
        /\ \A i, j \in Idx(B) : B.M[<<i, j>>] = B.M[<<j, i>>]

\* A and B of two cells that share vertices, with off-diagonal entries that differ
C2_Witness ==
    /\ pc = "returned"
    /\ Len(t) >= 2
    /\ \E i, j, a, b \in Idx(A) :
          /\ i # j /\ a # b
          /\ A.M[<<i, j>>] # Zero /\ A.M[<<a, b>>] # Zero
          /\ A.M[<<i, j>>] # A.M[<<a, b>>]
          /\ B.M[<<i, j>>] # Zero

(***************************************************************************)
(* C3: in a mesh that contains a zero-area triangle (zero-volume           *)
(* tetrahedron), the divisor vol of every cell is strictly positive after  *)
(* the guard step and every entry of A and B is finite.                    *)
(***************************************************************************)
C3_GuardPositive ==
    (pc = "returned" /\ HasDegenerateCell) =>
        /\ \A c \in DOMAIN t : IsPositive(GuardedVol(kind, v, t)[c])
        /\ AllFinite(A)
        /\ AllFinite(B)

\* the guard works when some cell of the mesh is not degenerate
GuardPositiveIfMixed ==
    (pc = "returned" /\ ~AllDegenerate) =>
        /\ \A c \in DOMAIN t : IsPositive(GuardedVol(kind, v, t)[c])
        /\ AllFinite(A)
        /\ AllFinite(B)

(***************************************************************************)
(* C4: A and B have exactly n_vertices rows and n_vertices columns, also   *)
(* when some vertices are referenced by no cell.                           *)
(***************************************************************************)
C4_ShapeIsVertexCount ==
    pc = "returned" =>
        /\ A.shape = <<Len(v), Len(v)>>
        /\ B.shape = <<Len(v), Len(v)>>

(***************************************************************************)
(* C6: for the unit tetrahedron, lump=True gives a diagonal mass matrix.   *)
(* As claimed, every diagonal entry is volume/24 = (1/6)/24 = 1/144.       *)
(***************************************************************************)
C6_LumpedUnitTetraClaimed ==
    (pc = "returned" /\ IsUnitTetra /\ lump) =>
        \A i, j \in Idx(B) : B.M[<<i, j>>] = (IF i = j THEN Rat(1, 144) ELSE Zero)

\* C6 as amended: every diagonal entry is volume/4 = (1/6)/4 = 1/24
C6_LumpedUnitTetra ==
    (pc = "returned" /\ IsUnitTetra /\ lump) =>
        /\ B.shape = <<4, 4>>
        /\ \A i, j \in Idx(B) : B.M[<<i, j>>] = (IF i = j THEN Rat(1, 24) ELSE Zero)

C6_Witness == pc = "returned" /\ IsUnitTetra /\ lump

(***************************************************************************)
(* C7: for the unit tetrahedron, A is the analytic P1 stiffness matrix     *)
(* (1/6) * [[3,-1,-1,-1],[-1,1,0,0],[-1,0,1,0],[-1,0,0,1]].                *)
(***************************************************************************)
UnitTetraStiffness ==
    << <<3, -1, -1, -1>>, <<-1, 1, 0, 0>>, <<-1, 0, 1, 0>>, <<-1, 0, 0, 1>> >>

C7_UnitTetraStiffness ==
    (pc = "returned" /\ IsUnitTetra) =>
        /\ A.shape = <<4, 4>>
        /\ \A i, j \in Idx(A) : A.M[<<i, j>>] = Rat(UnitTetraStiffness[i + 1][j + 1], 6)

C7_Witness == pc = "returned" /\ IsUnitTetra /\ ~lump

(***************************************************************************)
(* C8: computeABtetra and the order of a tetrahedron's corners.            *)
(***************************************************************************)
\* the orders the corners of a cell can be listed in
CornerOrders(n) == { p \in [1..n -> 1..n] : \A a, b \in 1..n : a # b => p[a] # p[b] }

Reorder(c, p) == [a \in DOMAIN c |-> c[p[a]]]

NonDegenerate(c) == RawVol(kind, v, t)[c] # Zero

CellContribution(c, l) ==
    IF kind = "tria"
    THEN TriaAssemble(v, << t[c] >>, << GuardedVol(kind, v, t)[c] >>, l)
    ELSE TetraAssemble(v, << t[c] >>, << GuardedVol(kind, v, t)[c] >>, l)

\* entry ij of a matrix, 0 outside its shape
Entry(m, ij) == IF ij \in DOMAIN m.M THEN m.M[ij] ELSE Zero

\* t with the cells at the positions a and b exchanged
Exchange(tt, a, b) == [tt EXCEPT ![a] = tt[b], ![b] = tt[a]]

\* Every reordering of t is a sequence of exchanges of two cells, and every
\* cell array an exchange leads to is itself a mesh of the model.
C9_AdditiveAnyOrder ==
    pc = "returned" =>
        /\ \A part \in { [c \in DOMAIN t |-> CellContribution(c, lump)] } :
              \A ij \in DOMAIN A.M :
                  /\ A.M[ij] = SumSeq([c \in DOMAIN t |-> Entry(part[c].A, ij)])
                  /\ B.M[ij] = SumSeq([c \in DOMAIN t |-> Entry(part[c].B, ij)])
        /\ \A a, b \in DOMAIN t : a < b =>
              computeAB(kind, v, Exchange(t, a, b), lump) = [A |-> A, B |-> B]

\* two different cells contribute to the same entry of A and of B
C9_Witness ==
    /\ pc = "returned" /\ Len(t) >= 2 /\ t[1] # t[2]
    /\ \E ij \in DOMAIN A.M :
          /\ ij[1] # ij[2]
          /\ Entry(CellContribution(1, lump).A, ij) \notin {Zero, A.M[ij]}
          /\ Entry(CellContribution(2, lump).A, ij) \notin {Zero, A.M[ij]}
          /\ Entry(CellContribution(1, lump).B, ij) # Zero
          /\ Entry(CellContribution(2, lump).B, ij) # Zero

(***************************************************************************)
(* C10: the lumped mass matrix is diagonal and its entry (i, i) is the sum *)
(* of row i of the consistent mass matrix, so both have the same total.    *)
(***************************************************************************)
Total(m) == SumSeq([i \in 1..m.shape[1] |-> RowSum(m, i - 1)])

C10_LumpedIsRowSum ==
    (pc = "returned" /\ lump) =>
        LET Bc == computeAB(kind, v, t, FALSE).B
        IN  /\ Bc.shape = B.shape
            /\ \A i, j \in Idx(B) :
                  B.M[<<i, j>>] = (IF i = j THEN RowSum(Bc, i) ELSE Zero)
            /\ Total(B) = Total(Bc)

\* a lumped mass matrix of cells that share vertices, with positive mass
C10_Witness ==
    /\ pc = "returned" /\ lump /\ Len(t) >= 2 /\ t[1] # t[2]
    /\ \E i \in Idx(B) : IsPositive(B.M[<<i, i>>])
    /\ \E ij \in DOMAIN B.M : ij[1] # ij[2] /\ computeAB(kind, v, t, FALSE).B.M[ij] # Zero

(***************************************************************************)
(* C5: laplaceTria / laplaceTetra called with k >= n_vertices fail with an *)
(* InvalidParameterError, raised before the shifted matrix is factorized   *)
(* and before the eigensolver is invoked.                                  *)
(***************************************************************************)
C5_BadKRejectedEarly ==
    (pc # "input" /\ t # << >> /\ k >= Len(v)) =>
        /\ pc # "lap_returned"
        /\ OPinv = "none"
        /\ \A e \in DOMAIN log : log[e] \notin {"call cholesky", "call splu", "call eigsh"}
        /\ pc = "lap_raised" => err = "InvalidParameterError"

(***************************************************************************)
(* Definiteness.  A symmetric matrix m is positive semi-definite, i.e.     *)
(* x^T m x >= 0 for every vector x, exactly when symmetric elimination     *)
(* succeeds: a positive pivot leaves a positive semi-definite Schur        *)
(* complement, a zero pivot has a zero row and column, and no pivot is     *)
(* negative.  It is positive definite exactly when every pivot is          *)
(* positive.  A matrix with an entry that is not finite is neither.        *)
(***************************************************************************)
SchurComplement(m, p, n) ==
    [ij \in ((p + 1)..(n - 1)) \X ((p + 1)..(n - 1)) |->
        Sub(m[ij], Div(Mul(m[<<ij[1], p>>], m[<<p, ij[2]>>]), m[<<p, p>>]))]

RECURSIVE PivotsFrom(_, _, _, _)
PivotsFrom(m, p, n, strict) ==
    IF p = n THEN TRUE
    ELSE IF IsPositive(m[<<p, p>>])
    THEN \A s \in {SchurComplement(m, p, n)} : PivotsFrom(s, p + 1, n, strict)
    ELSE /\ ~strict
         /\ \A j \in p..(n - 1) : m[<<p, j>>] = Zero /\ m[<<j, p>>] = Zero
         /\ PivotsFrom(m, p + 1, n, strict)

PositiveSemiDefinite(m) == AllFinite(m) /\ PivotsFrom(m.M, 0, m.shape[1], FALSE)

PositiveDefinite(m) == AllFinite(m) /\ PivotsFrom(m.M, 0, m.shape[1], TRUE)

\* x^T m x for a vector x over the indices of m
QuadForm(m, x) ==
    SumSeq([e \in 1..(m.shape[1] * m.shape[1]) |->
              LET i == (e - 1) \div m.shape[1]
                  j == (e - 1) % m.shape[1]
              IN  IF x[i] = 0 \/ x[j] = 0 THEN Zero
                  ELSE Mul(FromInt(x[i] * x[j]), m.M[<<i, j>>])])

IsNonNegative(x) == IsFinite(x) /\ x[1] >= 0

\* the vectors with entries -1, 0, 1
SignVectors(m) == [Idx(m) -> {-1, 0, 1}]

\* C11: on every return of computeABtria / computeABtetra the stiffness
\* matrix A is positive semi-definite: x^T A x >= 0 for every vector x
\* (checked by elimination, and directly on the vectors of signs).
C11_PositiveSemiDefinite ==
    pc = "returned" =>
        /\ PositiveSemiDefinite(A)
        /\ \A x \in SignVectors(A) : IsNonNegative(QuadForm(A, x))

\* what does hold: A is positive semi-definite whenever the guard had a
\* cell of nonzero area (volume) to take its substitute from
PositiveSemiDefiniteIfGuarded ==
    (pc = "returned" /\ ~AllDegenerate) => PositiveSemiDefinite(A)

\* every index of the matrix belongs to some cell
AllReferenced(m) == \A i \in Idx(m) : \E c \in DOMAIN t : \E a \in DOMAIN t[c] : t[c][a] = i

LogPositions(es) == {i \in DOMAIN log : log[i] \in es}

FactorizationEntries == {"call cholesky", "call splu"}

\* C13: in a call of laplaceTria / laplaceTetra A - sigma*B is factorized
\* at most once and, when the call returns, exactly once: with cholesky iff
\* sksparse.cholmod was imported, with splu otherwise; the message naming
\* that path is printed before the factorization; eigsh is called at most
\* once and, when the call returns, exactly once, after the factorization,
\* with that factorization as OPinv and the sigma of the shifted matrix.
C13_SolverPath ==
    /\ Len(factorCalls) <= 1
    /\ Len(eigshCalls) <= 1
    /\ Cardinality(LogPositions(FactorizationEntries)) = Len(factorCalls)
    /\ Cardinality(LogPositions({"call eigsh"})) = Len(eigshCalls)
    /\ \A i \in DOMAIN factorCalls :
          /\ factorCalls[i].fn = "cholesky" <=> useCholmod
          /\ factorCalls[i].fn = "splu" <=> ~useCholmod
          /\ factorCalls[i].arg.shape = A.shape
          /\ \A ij \in DOMAIN A.M :
                factorCalls[i].arg.M[ij] = <<A.M[ij], Mul(Rat(-1, SigmaDen), B.M[ij])>>
    /\ \A i \in LogPositions(FactorizationEntries) :
          /\ log[i] = (IF useCholmod THEN "call cholesky" ELSE "call splu")
          /\ \E j \in 1..(i - 1) :
                log[j] = (IF useCholmod
                          THEN "Solver: cholesky decomp - performance optimal ..."
                          ELSE "Solver: spsolve (LU decomp) - performance not optimal ...")
    /\ \A i \in LogPositions({"call eigsh"}) :
          \E j \in 1..(i - 1) : log[j] \in FactorizationEntries
    /\ \A i \in DOMAIN eigshCalls :
          /\ Len(factorCalls) = 1
          /\ eigshCalls[i].OPinv = factorCalls[1].fn
          /\ eigshCalls[i].sigma = Rat(-1, SigmaDen)
          /\ eigshCalls[i].k = k
    /\ pc = "lap_returned" => Len(factorCalls) = 1 /\ Len(eigshCalls) = 1

C13_Witness ==
    /\ pc = "lap_returned"
    /\ useCholmod
    /\ factorCalls # << >>
    /\ factorCalls[1].fn = "cholesky"
    /\ eigshCalls # << >>
    /\ eigshCalls[1].OPinv = "cholesky"
    /\ log = << "Solver: cholesky decomp - performance optimal ...",
                "call cholesky", "call eigsh" >>

\* the factorization was called and raised
FactorizationFailed == pc = "lap_raised" /\ factorCalls # << >> /\ OPinv = "none"

\* C14: when the factorization of A - sigma*B fails, the call fails with a
\* FactorizationError, eigsh is never invoked and no eigenvalues are returned.
C14_FactorizationError ==
    FactorizationFailed =>
        /\ err = "FactorizationError"
        /\ eigshCalls = << >>
        /\ "call eigsh" \notin {log[i] : i \in DOMAIN log}
        /\ eigenvalues = -1

\* what does hold: the exception of the library leaves the call as it is,
\* eigsh is not invoked and nothing is returned
FactorizationFailureLeavesCall ==
    FactorizationFailed =>
        /\ err = FactorizationFailure(useCholmod)
        /\ eigshCalls = << >>
        /\ eigenvalues = -1

\* C15: computeABtria, computeABtetra, laplaceTria and laplaceTetra leave
\* the caller's vertex array v and cell array t as they were, in every step,
\* also when the guard rewrites vol.
C15_InputsUnchanged == [][v' = v /\ t' = t]_vars

\* a call has returned in which the guard rewrote the vol of a cell
C15_Witness ==
    /\ pc \in {"returned", "lap_returned"}
    /\ HasDegenerateCell
    /\ ~AllDegenerate
    /\ GuardedVol(kind, v, t) # RawVol(kind, v, t)
    /\ \A c \in DOMAIN t : IsPositive(GuardedVol(kind, v, t)[c])

\* the call of laplaceTria / laplaceTetra has ended
LaplaceEnded == pc \in {"lap_returned", "lap_raised"}

\* C16: for every mesh and every k with 0 < k < n_vertices - 1 the call
\* of laplaceTria / laplaceTetra returns, with exactly k eigenvalues.
C16_ReturnsK ==
    (LaplaceEnded /\ t # << >> /\ 0 < k /\ k < Len(v) - 1) =>
        /\ pc = "lap_returned"
        /\ eigenvalues = k

\* what does hold: k eigenvalues are returned when no cell is degenerate
\* and every vertex belongs to some cell
ReturnsKOnProperMesh ==
    (/\ LaplaceEnded
     /\ 0 < k /\ k < Len(v) - 1
     /\ t # << >>
     /\ ~HasDegenerateCell
     /\ A.shape[1] = Len(v)
     /\ AllReferenced(A)) =>
        /\ pc = "lap_returned"
        /\ eigenvalues = k

(***************************************************************************)
(* run_shapeDNAtria and run_shapeDNAtetra.                                 *)
(***************************************************************************)
\* the positions in the trace of the calls of f
TracePositions(f) == {i \in DOMAIN run.trace : run.trace[i] = f}

\* C17: in python mode run_shapeDNAtria builds the record only after
\* laplaceTria has returned, with Refine = 0, Degree = 1, Dimension = 2,
\* Elements = number of triangles, DoF = number of vertices and NumEW = the
\* requested count; it passes the record to exportEV exactly once and calls
\* exportVTK only after that.
C17_RecordThenExports ==
    /\ run.d # << >> =>
          /\ pc = "lap_returned"
          /\ TracePositions("laplaceTria") # {}
          /\ run.d[1].Refine = 0
          /\ run.d[1].Degree = 1
          /\ run.d[1].Dimension = 2
          /\ run.d[1].Elements = Len(t)
          /\ run.d[1].DoF = Len(v)
          /\ run.d[1].NumEW = run.num
          /\ run.d[1].NumEW = k
    /\ Len(run.exported) <= 1
    /\ Cardinality(TracePositions("exportEV")) = Len(run.exported)
    /\ run.exported # << >> => run.d # << >> /\ run.exported[1] = run.d[1]
    /\ \A i \in TracePositions("exportVTK") :
          /\ \E j \in 1..(i - 1) : run.trace[j] = "exportEV"
          /\ Len(run.exported) = 1
    /\ Cardinality(TracePositions("exportVTK")) <= 1
    /\ (run.python /\ kind = "tria" /\ run.step = "done") =>
          run.trace = << "importVTK", "laplaceTria", "exportEV", "exportVTK" >>

C17_Witness ==
    /\ kind = "tria"
    /\ run.python
    /\ run.step = "done"
    /\ Len(t) = 1
    /\ Len(v) > Len(t) + 2
    /\ run.num > 1
    /\ run.exported = << EigenRecord(2, Len(v), Len(t), run.num, run.num) >>

\* C18: in python mode run_shapeDNAtetra imports the mesh, calls
\* laplaceTetra and exports a record with Dimension = 3, Elements = number
\* of tetrahedra and DoF = number of vertices; it does not end otherwise.
C18_TetraPipeline ==
    (kind = "tetra" /\ run.python /\ run.step \in {"done", "exited", "raised"}) =>
        /\ run.step # "exited"
        /\ TracePositions("importVTKtetra") # {}
        /\ TracePositions("laplaceTetra") # {}
        /\ run.step = "done" =>
              /\ Len(run.exported) = 1
              /\ run.exported[1].Dimension = 3
              /\ run.exported[1].Elements = Len(t)
              /\ run.exported[1].DoF = Len(v)

(***************************************************************************)
(* importMGH.                                                              *)
(***************************************************************************)
\* C20: importMGH starts reading the voxel data at the same file offset
\* whatever the RAS-good flag: the bytes consumed before the voxel data are
\* as many when the flag is zero as when it is set.
C20_SameVoxelOffset ==
    (io.fn = "importMGH" /\ io.step = "returned" /\ io.opened) =>
        io.offset = SumInts(HeaderReads(1))

\* what does hold: with the flag set the voxel data are read from byte
\* 7*4 + 2 + 60 + 194 = 284, with the flag zero from byte 224
VoxelOffsetByFlag ==
    (io.fn = "importMGH" /\ io.step = "returned" /\ io.opened) =>
        io.offset = 7 * intsize + shortsize + PaddingReads[1] * Len(PaddingReads)
                        + (IF io.file.ras_good_flag # 0 THEN USED_SPACE_SIZE ELSE 0)

(***************************************************************************)
(* readLTA.                                                                *)
(***************************************************************************)
\* the type field of the file is ty
TypeFieldIs(ty) == \E j \in DOMAIN io.lta : StartsWith(io.lta[j], << "type", "=", ToString(ty) >>)

\* C19: readLTA on a file whose type field is 1 raises
\* UnsupportedTransformError; it does not return a mapping with type = 1.
C19_Type1Rejected ==
    (io.fn = "readLTA" /\ io.step \in {"returned", "raised"} /\ TypeFieldIs(1)) =>
        /\ io.step = "raised"
        /\ io.err = "UnsupportedTransformError"

\* what does hold: readLTA returns the type it read, whatever it is
ReturnsTypeRead ==
    (io.fn = "readLTA" /\ io.step = "returned") =>
        \A ty \in 0..MaxType : TypeFieldIs(ty) => io.d["type"] = ty

\* C21: importMGH called with a path that does not exist issues a warning
\* and returns the NaN sentinel; it does not raise and it neither opens nor
\* reads a file.
C21_MissingFileGivesNaN ==
    (io.fn = "importMGH" /\ ~io.file.exists /\ io.step # "call") =>
        /\ io.step = "returned"
        /\ io.warned
        /\ io.result = << "nan" >>
        /\ ~io.opened
        /\ io.reads = << >>
        /\ io.offset = 0
        /\ io.voxelBytes = 0

C21_Witness ==
    /\ io.fn = "importMGH"
    /\ ~io.file.exists
    /\ io.step = "returned"
    /\ io.warned
    /\ io.result = << "nan" >>
(***************************************************************************)
(* The script                                                               *)
(***************************************************************************)
\* options_parse has been called and has ended
ParseEnded == io.fn = "fs_shapeDNA" /\ io.step \notin {"start", "loaded"}

\* the input options as the help text wants them
ValidCombination(o) ==
    /\ Cardinality({x \in {"asegid", "hsfid", "surf"} : o[x]}) = 1
    /\ (o.label \/ o.aparcid) => o.surf
    /\ o.hsfid => o.hemi \in {"lh", "rh"}

\* C22: loading the module, and running it, leaves the state of the process
\* alone: no step changes an environment variable or the warning filters.
C22_NoProcessWideMutation ==
    [][io.fn = "fs_shapeDNA" => (io'.env = io.env /\ io'.filters = io.filters)]_vars

\* what the load does: OMP_NUM_THREADS is "1" and a filter is installed
\* from then on, whatever the environment was
LoadSetsThreadsAndFilter ==
    (io.fn = "fs_shapeDNA" /\ io.step # "start") =>
        /\ io.env.OMP_NUM_THREADS = "1"
        /\ Len(io.filters) = 1

\* C23: with --python, SHAPEDNA_HOME unset and everything else valid,
\* options_parse returns the options.
C23_PythonNeedsNoShapeDNAHome ==
    (/\ ParseEnded
     /\ io.options.python
     /\ io.env.SHAPEDNA_HOME = "None"
     /\ io.env.FREESURFER_HOME # "None"
     /\ io.options.missing = "nothing"
     /\ io.options.hemi \in {"None", "lh", "rh"}
     /\ ValidCombination(io.options)) => io.parsed

\* C24: options_parse returns only for a valid combination of the input
\* options, every other combination exits with status 1, and after a return
\* main finds a branch and binds the surface.
C24_ExactlyOneInput ==
    ParseEnded =>
        /\ io.parsed => ValidCombination(io.options)
        /\ ~ValidCombination(io.options) => (io.step = "exited" /\ io.status = 1)
        /\ (io.parsed /\ io.step = "raised") =>
              io.err \notin {"NameError", "TypeError: get_hsf_surf"}

\* what does hold: a return needs a valid combination, and an invalid one
\* ends the process, by exit status 1 or by the TypeError of the path join
ReturnsOnlyValidCombination ==
    ParseEnded =>
        /\ io.parsed => ValidCombination(io.options)
        /\ ~ValidCombination(io.options) =>
              \/ io.step = "exited" /\ io.status = 1
              \/ io.step = "raised" /\ io.err = "TypeError: join"
\* C26: with --hsfid and a valid --hemi, main gets the surface from
\* get_hsf_surf and goes on to the spectrum, as it does for --asegid: the
\* call of get_hsf_surf does not fail as a call.
C26_HsfBranchRuns ==
    (ParseEnded /\ io.parsed /\ io.options.hsfid /\ io.step # "parsed") =>
        ~(io.step = "raised" /\ io.err = "TypeError: get_hsf_surf")

\* what does hold: with --hsfid main ends in the TypeError of the call
HsfBranchRaises ==
    (ParseEnded /\ io.parsed /\ io.options.hsfid /\ io.step # "parsed") =>
        /\ io.step = "raised"
        /\ io.err = "TypeError: get_hsf_surf"
        /\ io.cmds = << >>
        /\ io.surf = "None"

\* the commands of get_aseg_surf in the order of the claim
AsegOrder(norm) ==
    << "mri_binarize" >> \o (IF norm THEN << "mri_pretess" >> ELSE << >>)
        \o << "mri_mc", "mris_convert", "rm segf", "rm segsurf" >>

\* main is in get_aseg_surf or has just left it
InGetAsegSurf ==
    ParseEnded /\ io.parsed /\ io.options.asegid /\ io.step # "parsed" /\ io.called = ""

\* C27: get_aseg_surf runs mri_binarize, mri_pretess (if norm.mgz exists),
\* mri_mc, mris_convert, rm of the segmentation, rm of the surface, in this
\* order, each only after all before it succeeded; when it returns both
\* temporary files are gone and only outsurf is left.
C27_AsegCommandsInOrder ==
    InGetAsegSurf =>
        /\ Len(io.cmds) <= Len(AsegOrder(io.norm))
        /\ \A j \in DOMAIN io.cmds :
              /\ io.cmds[j][1] = AsegOrder(io.norm)[j]
              /\ j < Len(io.cmds) => io.cmds[j][2] = "ok"
        /\ io.step = "bound" =>
              /\ Len(io.cmds) = Len(AsegOrder(io.norm))
              /\ \A j \in DOMAIN io.cmds : io.cmds[j][2] = "ok"
              /\ io.files = {"outsurf"}
              /\ io.surf = "outsurf"

C27_Witness ==
    /\ InGetAsegSurf
    /\ io.step = "bound"
    /\ io.norm
    /\ Len(io.cmds) = 6
(***************************************************************************)
(* applyTransform                                                          *)
(***************************************************************************)
\* the arguments for which the spec lets applyTransform write
TransformSupported ==
    /\ io.ext = ".lta"
    /\ TypeFieldIs(0)
    /\ io.interp \in {"nearest", "cubic"}

\* C25: applyTransform writes out_file only for an .lta file of type 0 and
\* interp nearest or cubic; for every other extension, type or interp it
\* ends by raising, with nothing written.
C25_WritesOnlyVox2VoxLta ==
    (io.fn \in {"applyTransform", "readLTA"} /\ "out_file" \in DOMAIN io) =>
        /\ io.out_file # << >> => TransformSupported
        /\ (io.fn = "applyTransform" /\ io.step # "call" /\ ~TransformSupported) =>
              (io.step = "raised" /\ io.out_file = << >>)

C25_Witness ==
    /\ io.fn = "applyTransform"
    /\ io.step = "returned"
    /\ io.out_file # << >>
    /\ io.interp = "cubic"

\* a file of a type other than 0 and 1 ends in the unbound m
C25_WitnessUnbound ==
    /\ io.fn = "applyTransform"
    /\ io.step = "raised"
    /\ io.err = "UnboundLocalError"
(***************************************************************************)
(* levelsetsTria                                                           *)
(***************************************************************************)
\* the levels handed over, row by row, and their number
NumLevels == Len(io.levelsets) * Len(io.levelsets[1])

LevelAt(m) ==
    io.levelsets[((m - 1) \div Len(io.levelsets[1])) + 1][((m - 1) % Len(io.levelsets[1])) + 1]

\* the edges of the mesh with p above l at one end and not above at the other
Crossed(l) ==
    {{io.t[c][j], io.t[c][jj]} : c \in DOMAIN io.t, j \in 1..3, jj \in 1..3} \cap
        {{a, b} : a \in {x \in 0..3 : io.p[x] > l}, b \in {x \in 0..3 : ~(io.p[x] > l)}}

\* the points of the list vi interpolated on edge e
PointsOn(vi, e) == {m \in DOMAIN vi : {vi[m].a, vi[m].b} = e}

\* the indices of lLVL[m] point into vLVL[m], one pair per triangle of iLVL[m]
IndicesValid(m) ==
    /\ Len(io.lLVL[m]) = Len(io.iLVL[m])
    /\ \A c \in DOMAIN io.lLVL[m] :
          \A j \in 1..2 : io.lLVL[m][c][j] \in 1..Len(io.vLVL[m])

\* the factor s of a point is a number in [0, 1] with a nonzero denominator
WellDefined(pt) ==
    /\ io.p[pt.b] - io.p[pt.a] # 0
    /\ \A j \in DOMAIN pt.s : IsFinite(pt.s[j]) /\ 0 <= pt.s[j][1] /\ pt.s[j][1] <= pt.s[j][2]

\* C28: for each level every edge of the mesh crossed by the level has
\* exactly one interpolated vertex in the list of the level, whatever the
\* number and the order of the triangles that share it; every index of lLVL
\* is between 1 and the length of that list, one pair per triangle of iLVL.
C28_OnePointPerCrossedEdge ==
    (io.fn = "levelsetsTria" /\ io.step = "returned") =>
        /\ \A m \in 1..NumLevels :
              /\ m \in DOMAIN io.vLVL
              /\ \A e \in Crossed(LevelAt(m)) : Cardinality(PointsOn(io.vLVL[m], e)) = 1
        /\ \A m \in DOMAIN io.lLVL : IndicesValid(m)

\* what does hold: for the rows of one level each crossed edge has one point
\* and no other edge has any; the indices are valid for every row
OnePointPerCrossedEdgeOfRow ==
    (io.fn = "levelsetsTria" /\ io.step = "returned") =>
        /\ Len(io.vLVL) = Len(io.levelsets)
        /\ \A m \in DOMAIN io.vLVL :
              /\ IndicesValid(m)
              /\ Len(io.levelsets[m]) = 1 =>
                    /\ \A e \in Crossed(io.levelsets[m][1]) :
                          Cardinality(PointsOn(io.vLVL[m], e)) = 1
                    /\ \A c \in DOMAIN io.vLVL[m] :
                          {io.vLVL[m][c].a, io.vLVL[m][c].b} \in Crossed(io.levelsets[m][1])

\* C29: every interpolation is well defined: the denominator
\* p[other] - p[isolated] is not zero and the factor s is in [0, 1].
C29_InterpolationWellDefined ==
    io.fn = "levelsetsTria" => \A c \in DOMAIN io.vi : WellDefined(io.vi[c])

\* what does hold: it is well defined when the row of the level is one number
WellDefinedForOneLevel ==
    (io.fn = "levelsetsTria" /\ io.step = "tria" /\ Len(io.levelsets[io.lidx + 1]) = 1) =>
        \A c \in DOMAIN io.vi : WellDefined(io.vi[c])
(***************************************************************************)
(* The loops of readLTA                                                    *)
(***************************************************************************)
\* line i (from 0) lies in the block of volume info called name: the last
\* header of a block at or before it is that of name
InBlock(name, i) ==
    \E h \in 1..(i + 1) :
       /\ StartsWith(io.lta[h], << name, "volume", "info" >>)
       /\ \A hh \in (h + 1)..(i + 1) :
             ~(\E other \in {"src", "dst"} \ {name} :
                  StartsWith(io.lta[hh], << other, "volume", "info" >>))

\* the keys of a block
BlockKeys(name) ==
    {name \o "_" \o w : w \in {"valid", "filename", "volume", "voxelsize",
                                "xras", "yras", "zras", "cras"}}

\* the iterations so far: the index grows in each one that ran to its end
\* (an outer iteration at the header of a block goes on in the loop of the
\* block, which moves the index); the lines taken by the iterations follow
\* one another from line 0; the keys of a block come from its lines
LoopsAdvance ==
    \A j \in DOMAIN io.iters :
       \A it \in {io.iters[j]} :
          /\ it.from = (IF j = 1 THEN 0 ELSE io.iters[j - 1].to)
          /\ (it.done /\ it.mode \in {"src", "dst"}) => it.to = it.from + 1
          /\ (it.done /\ it.mode = "outer") =>
                \/ it.to > it.from
                \/ /\ it.to = it.from
                   /\ IF j < Len(io.iters)
                      THEN io.iters[j + 1].mode \in {"src", "dst"} /\ io.iters[j + 1].done
                      ELSE io.mode \in {"src", "dst"}
          /\ \A name \in {"src", "dst"} :
                it.wrote \cap BlockKeys(name) # {} => InBlock(name, it.from)

\* C30: the loop of readLTA ends on every file: each iteration of the outer
\* loop and of the loops of the two blocks moves the index forward, no line
\* is taken twice, the src_ keys are set from the lines of the src block only
\* and the dst_ keys from those of the dst block only, whichever comes first.
C30_LoopTerminates ==
    /\ [](io.fn = "readLTA" => LoopsAdvance)
    /\ <>(io.fn = "readLTA" /\ io.step \in {"returned", "raised"})

\* a file with the dst block first, read to its end, both blocks stored
C30_Witness ==
    /\ io.fn = "readLTA"
    /\ io.step = "returned"
    /\ InBlock("src", Len(io.lta) - 1)
    /\ \E j \in DOMAIN io.iters : "dst_cras" \in io.iters[j].wrote
    /\ \E j \in DOMAIN io.iters : "src_cras" \in io.iters[j].wrote

====
